---- MODULE Spec2Model ----
(***************************************************************************)
(* A model of the gib Game Boy emulator core: the bus and its cartridge    *)
(* bank logic (src/src/gb/bus.rs), flat memory (src/src/gb/mem/memory.rs), *)
(* the picture unit (src/src/gb/io/video.rs), the sound unit               *)
(* (src/gib-core/src/io/sound.rs), the instruction executor                *)
(* (src/src/gb/cpu/opcodes.rs) and the driver (src/src/gb/gameboy.rs).     *)
(* All bus accesses modelled here are 8-bit accesses (T = u8).             *)
(***************************************************************************)
EXTENDS Integers, Sequences, FiniteSets, TLC

(***************************************************************************)
(* Bounds of the model.                                                    *)
(***************************************************************************)
\* bank-select values 0..MaxBankVal are written (and 255)
MaxBankVal == 33
\* the driver calls step on its own while the cycle counter is below this
MaxStartClk == 8
\* SpecAPU: the sound registers are written at most MaxApuWrites times, from
\* ApuLead ticks before the first 64 Hz clock on, and the unit is ticked until
\* ApuTail ticks after it
MaxApuWrites == 3
ApuLead == 2
ApuTail == 3
\* SpecMixer: the mixer is ticked until it has offered MaxOverflow samples
\* more than the queue holds
MaxOverflow == 2
\* the instructions one run of SpecFlow executes
MaxFlowSteps == 4
\* SpecTone: the number of APU ticks
MaxToneTicks == 140
\* SpecMem: the number of accesses to a memory block
MaxMemOps == 2
\* SpecQueue: the number of times the consumer pops
MaxPops == 5

(***************************************************************************)
(* Program constants.                                                      *)
(***************************************************************************)
\* rom.chunks(0x4000), Memory::new(0x4000)
BANK_SIZE == 16384
\* the boot overlay covers bank 0 offsets 0..255
BOOT_LEN == 256
\* rom[0x147]: the cartridge type byte of the header
MBC_HEADER == 327
\* rom_select accepts 0x01..=0x1F
MAX_ROM_BANK == 31
ERAM_SIZE == 8192
HRAM_SIZE == 127
WRAM_SIZE == 4096

BOOT_ROM == <<
    49, 254, 255, 175, 33, 255, 159, 50, 203, 124, 32, 251, 33, 38, 255, 14,
    17, 62, 128, 50, 226, 12, 62, 243, 226, 50, 62, 119, 119, 62, 252, 224,
    71, 17, 4, 1, 33, 16, 128, 26, 205, 149, 0, 205, 150, 0, 19, 123,
    254, 52, 32, 243, 17, 216, 0, 6, 8, 26, 19, 34, 35, 5, 32, 249,
    62, 25, 234, 16, 153, 33, 47, 153, 14, 12, 61, 40, 8, 50, 13, 32,
    249, 46, 15, 24, 243, 103, 62, 100, 87, 224, 66, 62, 145, 224, 64, 4,
    30, 2, 14, 12, 240, 68, 254, 144, 32, 250, 13, 32, 247, 29, 32, 242,
    14, 19, 36, 124, 30, 131, 254, 98, 40, 6, 30, 193, 254, 100, 32, 6,
    123, 226, 12, 62, 135, 226, 240, 66, 144, 224, 66, 21, 32, 210, 5, 32,
    79, 22, 32, 24, 203, 79, 6, 4, 197, 203, 17, 23, 193, 203, 17, 23,
    5, 32, 245, 34, 35, 34, 35, 201, 206, 237, 102, 102, 204, 13, 0, 11,
    3, 115, 0, 131, 0, 12, 0, 13, 0, 8, 17, 31, 136, 137, 0, 14,
    220, 204, 110, 230, 221, 221, 217, 153, 187, 187, 103, 99, 110, 14, 236, 204,
    221, 220, 153, 159, 187, 185, 51, 62, 60, 66, 185, 165, 185, 165, 66, 60,
    33, 4, 1, 17, 168, 0, 26, 19, 190, 32, 254, 35, 125, 254, 52, 32,
    245, 6, 25, 120, 134, 35, 5, 32, 251, 134, 32, 254, 62, 1, 224, 80 >>

Byte == 0..255

(***************************************************************************)
(* Bit operations on naturals.                                             *)
(***************************************************************************)
RECURSIVE BitAnd(_, _)
BitAnd(a, b) ==
    IF a = 0 \/ b = 0 THEN 0
    ELSE (a % 2) * (b % 2) + 2 * BitAnd(a \div 2, b \div 2)

RECURSIVE BitOr(_, _)
BitOr(a, b) ==
    IF a = 0 THEN b
    ELSE IF b = 0 THEN a
    ELSE (IF a % 2 = 1 \/ b % 2 = 1 THEN 1 ELSE 0) + 2 * BitOr(a \div 2, b \div 2)

\* IoReg::bit(n)
Bit(v, n) == (v \div (2 ^ n)) % 2 = 1

(***************************************************************************)
(* dbg::TraceEvent values returned by the fallible operations, and the     *)
(* outcome of a Rust panic (index out of bounds, unreachable!, panic!).    *)
(***************************************************************************)
Ok == [kind |-> "Ok"]
MemFault(a) == [kind |-> "MemFault", addr |-> a]
BusFault(a) == [kind |-> "BusFault", addr |-> a]
InvalidMbcOp(o, v) == [kind |-> "InvalidMbcOp", op |-> o, val |-> v]
UnsupportedMbcType(n) == [kind |-> "UnsupportedMbcType", val |-> n]
CgbSpeedSwitchReq == [kind |-> "CgbSpeedSwitchReq"]
UnsupportedCgbOp(a) == [kind |-> "UnsupportedCgbOp", addr |-> a]
Panic(what) == [kind |-> "Panic", what |-> what]

(***************************************************************************)
(* Cartridge images.  An image is a byte string of img.len bytes: its      *)
(* header type byte is img.type, the bytes from the entry point 0x100 on   *)
(* are img.code, every other byte is a pattern derived from img.seed.      *)
(***************************************************************************)
\* the first address past the boot overlay, where the cartridge program starts
ENTRY_POINT == BOOT_LEN

ImageByte(img, i) ==
    IF i = MBC_HEADER THEN img.type
    ELSE IF i >= ENTRY_POINT /\ i - ENTRY_POINT < Len(img.code)
    THEN img.code[i - ENTRY_POINT + 1]
    ELSE (img.seed + 3 * i + 7 * (i \div BANK_SIZE)) % 256

NoImage == [len |-> 0, type |-> 0, seed |-> 0, code |-> << >>]

(***************************************************************************)
(* Memory (mem/memory.rs): a Vec<u8> of `size` bytes.  The vector is       *)
(* represented by its initial contents `fill` (all zero, or a 16 KiB chunk *)
(* of an image) and the cells `over` that differ from it.                  *)
(***************************************************************************)
EmptyMap == [x \in {} |-> 0]

ZeroFill == [img |-> NoImage, base |-> 0]

FillByte(fill, a) ==
    IF fill.base + a < fill.img.len THEN ImageByte(fill.img, fill.base + a) ELSE 0

\* Memory::new
Memory_new(size) == [size |-> size, fill |-> ZeroFill, over |-> EmptyMap]

\* data[a]
Cell(m, a) == IF a \in DOMAIN m.over THEN m.over[a] ELSE FillByte(m.fill, a)

\* data[a] = v
Store(m, a, v) ==
    IF v = FillByte(m.fill, a)
    THEN [m EXCEPT !.over = [x \in (DOMAIN m.over) \ {a} |-> m.over[x]]]
    ELSE [m EXCEPT !.over = [x \in (DOMAIN m.over) \cup {a} |->
                                IF x = a THEN v ELSE m.over[x]]]

\* Memory::read::<u8>
Memory_read(m, addr) ==
    IF addr < m.size
    THEN [res |-> Ok, val |-> Cell(m, addr)]
    ELSE [res |-> MemFault(addr), val |-> 0]

\* Memory::write::<u8> that checks the address and stores nothing
Memory_write_dropped(m, addr, val) ==
    IF addr < m.size
    THEN [res |-> Ok, mem |-> m]
    ELSE [res |-> MemFault(addr), mem |-> m]

\* Memory::write::<u8>
Memory_write(m, addr, val) ==
    IF addr < m.size
    THEN [res |-> Ok, mem |-> Store(m, addr, val)]
    ELSE [res |-> MemFault(addr), mem |-> m]

\* T::read_le / T::write_le for u16 on the slice data[addr..], which holds a
\* single byte when addr is the last cell: indexing its second byte panics
ShortSlice == Panic("index out of bounds")

\* Memory::read::<u16>: little-endian
Memory_read16(m, addr) ==
    IF addr >= m.size THEN [res |-> MemFault(addr), val |-> 0]
    ELSE IF addr + 1 >= m.size THEN [res |-> ShortSlice, val |-> 0]
    ELSE [res |-> Ok, val |-> Cell(m, addr) + 256 * Cell(m, addr + 1)]

\* Memory::write::<u16>: little-endian
Memory_write16(m, addr, val) ==
    IF addr >= m.size THEN [res |-> MemFault(addr), mem |-> m]
    ELSE IF addr + 1 >= m.size THEN [res |-> ShortSlice, mem |-> m]
    ELSE [res |-> Ok, mem |-> Store(Store(m, addr, val % 256), addr + 1, val \div 256)]

\* a zero-initialised array (PPU tables): cells that are not zero
SparseGet(f, k) == IF k \in DOMAIN f THEN f[k] ELSE 0

SparsePut(f, k, v) ==
    IF v = 0 THEN [x \in (DOMAIN f) \ {k} |-> f[x]]
    ELSE [x \in (DOMAIN f) \cup {k} |-> IF x = k THEN v ELSE f[x]]

(***************************************************************************)
(* Picture unit (io/video.rs).                                             *)
(***************************************************************************)
\* one frame: 154 scanlines of 456 cycles
FRAME_CYCLES == 70224
LINE_CYCLES == 456
VBLANK_LINE == 144
\* one call of PPU::tick advances the counter by 4
TICK_CYCLES == 4

\* PPU::default
PPU_default ==
    [tdt |-> EmptyMap, oam |-> EmptyMap, bgtm0 |-> EmptyMap, bgtm1 |-> EmptyMap,
     lcdc_reg |-> 0, stat_reg |-> 0,
     scx_reg |-> 0, scy_reg |-> 0, lyc_reg |-> 0, ly_reg |-> 0,
     wy_reg |-> 0, wx_reg |-> 0,
     obp0_reg |-> 0, obp1_reg |-> 0, bgp_reg |-> 0, dma_reg |-> 0,
     tstate |-> 0,
     vblank_irq_pending |-> FALSE, stat_irq_pending |-> FALSE]

\* the mode selection with the first boundary moved from 79 to 80
TickMode_late(counter) ==
    LET tstate == counter % LINE_CYCLES
        v_line == counter \div LINE_CYCLES
    IN  IF v_line < VBLANK_LINE
        THEN (IF tstate <= 80 THEN 2 ELSE IF tstate <= 253 THEN 3 ELSE 0)
        ELSE 1

\* the mode selected in PPU::tick for a counter value
TickMode(counter) ==
    LET tstate == counter % LINE_CYCLES
        v_line == counter \div LINE_CYCLES
    IN  IF v_line < VBLANK_LINE
        THEN (IF tstate <= 79 THEN 2 ELSE IF tstate <= 253 THEN 3 ELSE 0)
        ELSE 1

\* the latch condition without the test of the position within the line
TickLatches_line(counter) ==
    counter \div LINE_CYCLES = VBLANK_LINE

\* whether PPU::tick latches the v-blank IRQ at a counter value
TickLatches(counter) ==
    counter \div LINE_CYCLES = VBLANK_LINE /\ counter % LINE_CYCLES = 0

\* the counter after one PPU::tick
TickAdvance(counter) == (counter + TICK_CYCLES) % FRAME_CYCLES

\* tick without the test of the display-enable bit
PPU_tick_always(ppu) ==
    LET counter == TickAdvance(ppu.tstate)
        v_line == counter \div LINE_CYCLES
    IN  [ppu EXCEPT
           !.tstate = counter,
           !.stat_reg = (ppu.stat_reg - (ppu.stat_reg % 4)) + TickMode(counter),
           !.ly_reg = v_line % 256,
           !.vblank_irq_pending =
               IF TickLatches(counter) THEN TRUE ELSE ppu.vblank_irq_pending]

\* PPU::tick
PPU_tick(ppu) ==
    IF ~Bit(ppu.lcdc_reg, 7) THEN ppu
    ELSE LET counter == TickAdvance(ppu.tstate)
             v_line == counter \div LINE_CYCLES
         IN  [ppu EXCEPT
                !.tstate = counter,
                !.stat_reg = (ppu.stat_reg - (ppu.stat_reg % 4)) + TickMode(counter),
                !.ly_reg = v_line % 256,
                !.vblank_irq_pending =
                    IF TickLatches(counter) THEN TRUE ELSE ppu.vblank_irq_pending]

\* PPU::get_and_clear_irq: the source returned and the unit afterwards
PPU_get_and_clear_irq(ppu) ==
    IF ppu.vblank_irq_pending
    THEN [irq |-> "VBlank", ppu |-> [ppu EXCEPT !.vblank_irq_pending = FALSE]]
    ELSE IF ppu.stat_irq_pending
    THEN [irq |-> "LcdStat", ppu |-> [ppu EXCEPT !.stat_irq_pending = FALSE]]
    ELSE [irq |-> "None", ppu |-> ppu]

\* PPU::shade
PPU_shade(ppu, color) ==
    LET sel == (ppu.bgp_reg \div (2 ^ (color * 2))) % 4
    IN  IF sel = 0 THEN 255 ELSE IF sel = 1 THEN 170 ELSE IF sel = 2 THEN 85 ELSE 0

\* PPU::bg_tile: the index into tdt of the tile shown at map position id
PPU_bg_tile(ppu, id) ==
    LET tile_id == IF Bit(ppu.lcdc_reg, 3) THEN SparseGet(ppu.bgtm1, id)
                   ELSE SparseGet(ppu.bgtm0, id)
    IN  IF Bit(ppu.lcdc_reg, 4) THEN tile_id
        ELSE 128 + (IF tile_id >= 128 THEN tile_id - 256 ELSE tile_id)

\* Tile::pixel of tile tid
Tile_pixel(ppu, tid, x, y) ==
    LET bl == SparseGet(ppu.tdt, tid * 16 + y * 2)
        bh == SparseGet(ppu.tdt, tid * 16 + y * 2 + 1)
    IN  ((bh \div (2 ^ (7 - x))) % 2) * 2 + ((bl \div (2 ^ (7 - x))) % 2)

\* PPU::rasterize / rasterize_bg: the byte at index idx of the buffer after
\* the call, old being the byte there before it
PPU_rasterize(ppu, idx, old) ==
    IF ~Bit(ppu.lcdc_reg, 7) THEN 255
    ELSE IF ~Bit(ppu.lcdc_reg, 0) THEN 255
    ELSE IF idx % 4 = 3 \/ idx >= 160 * 144 * 4 THEN old
    ELSE LET py == idx \div (160 * 4)
             px == (idx % (160 * 4)) \div 4
             y == (py + ppu.scy_reg) % 256
             x == (px + ppu.scx_reg) % 256
             tid == PPU_bg_tile(ppu, ((y \div 8) * 32) + (x \div 8))
         IN  PPU_shade(ppu, Tile_pixel(ppu, tid, x % 8, y % 8))

\* MemR for [Sprite]: the cell of the sprite table an offset selects
Sprite_cell(addr) == (addr \div 4) * 4 + (addr % 2)

\* PPU::read::<u8> with bits 7 and 6 of the status register forced
PPU_read_two_bits(ppu, addr) ==
    IF addr = 65345 THEN [res |-> Ok, val |-> BitOr(ppu.stat_reg, 192)]
    ELSE [res |-> Panic("unreachable"), val |-> 0]

\* PPU::read::<u8>
PPU_read(ppu, addr) ==
    IF addr >= 32768 /\ addr <= 38911
        THEN [res |-> Ok, val |-> SparseGet(ppu.tdt, addr - 32768)]
    ELSE IF addr >= 38912 /\ addr <= 39935
        THEN [res |-> Ok, val |-> SparseGet(ppu.bgtm0, addr - 38912)]
    ELSE IF addr >= 39936 /\ addr <= 40959
        THEN [res |-> Ok, val |-> SparseGet(ppu.bgtm1, addr - 39936)]
    ELSE IF addr >= 65024 /\ addr <= 65183
        THEN [res |-> Ok, val |-> SparseGet(ppu.oam, Sprite_cell(addr - 65024))]
    ELSE IF addr = 65344 THEN [res |-> Ok, val |-> ppu.lcdc_reg]
    ELSE IF addr = 65345 THEN [res |-> Ok, val |-> BitOr(ppu.stat_reg, 128)]
    ELSE IF addr = 65346 THEN [res |-> Ok, val |-> ppu.scy_reg]
    ELSE IF addr = 65347 THEN [res |-> Ok, val |-> ppu.scx_reg]
    ELSE IF addr = 65348 THEN [res |-> Ok, val |-> ppu.ly_reg]
    ELSE IF addr = 65349 THEN [res |-> Ok, val |-> ppu.lyc_reg]
    ELSE IF addr = 65350 THEN [res |-> Ok, val |-> 255]
    ELSE IF addr = 65351 THEN [res |-> Ok, val |-> ppu.bgp_reg]
    ELSE IF addr = 65352 THEN [res |-> Ok, val |-> ppu.obp0_reg]
    ELSE IF addr = 65353 THEN [res |-> Ok, val |-> ppu.obp1_reg]
    ELSE IF addr = 65354 THEN [res |-> Ok, val |-> ppu.wy_reg]
    ELSE IF addr = 65355 THEN [res |-> Ok, val |-> ppu.wx_reg]
    ELSE [res |-> Panic("unreachable"), val |-> 0]

\* PPU::write::<u8> of the control and status registers, with a write to
\* 0xFF44 stored in the scanline register
PPU_write_ly(ppu, addr, val) ==
    IF addr = 65344 THEN [res |-> Ok, ppu |-> [ppu EXCEPT !.lcdc_reg = val]]
    ELSE IF addr = 65345 THEN [res |-> Ok, ppu |-> [ppu EXCEPT !.stat_reg = val]]
    ELSE IF addr = 65348 THEN [res |-> Ok, ppu |-> [ppu EXCEPT !.ly_reg = val]]
    ELSE [res |-> Panic("unreachable"), ppu |-> ppu]

\* PPU::write::<u8>
PPU_write(ppu, addr, val) ==
    IF addr >= 32768 /\ addr <= 38911
        THEN [res |-> Ok, ppu |-> [ppu EXCEPT !.tdt = SparsePut(@, addr - 32768, val)]]
    ELSE IF addr >= 38912 /\ addr <= 39935
        THEN [res |-> Ok, ppu |-> [ppu EXCEPT !.bgtm0 = SparsePut(@, addr - 38912, val)]]
    ELSE IF addr >= 39936 /\ addr <= 40959
        THEN [res |-> Ok, ppu |-> [ppu EXCEPT !.bgtm1 = SparsePut(@, addr - 39936, val)]]
    ELSE IF addr >= 65024 /\ addr <= 65183
        THEN [res |-> Ok,
              ppu |-> [ppu EXCEPT !.oam = SparsePut(@, Sprite_cell(addr - 65024), val)]]
    ELSE IF addr = 65344 THEN [res |-> Ok, ppu |-> [ppu EXCEPT !.lcdc_reg = val]]
    ELSE IF addr = 65345 THEN [res |-> Ok, ppu |-> [ppu EXCEPT !.stat_reg = val]]
    ELSE IF addr = 65346 THEN [res |-> Ok, ppu |-> [ppu EXCEPT !.scy_reg = val]]
    ELSE IF addr = 65347 THEN [res |-> Ok, ppu |-> [ppu EXCEPT !.scx_reg = val]]
    ELSE IF addr = 65348 THEN [res |-> Ok, ppu |-> ppu]
    ELSE IF addr = 65349 THEN [res |-> Ok, ppu |-> [ppu EXCEPT !.lyc_reg = val]]
    ELSE IF addr = 65350 THEN [res |-> Ok, ppu |-> [ppu EXCEPT !.dma_reg = val]]
    ELSE IF addr = 65351 THEN [res |-> Ok, ppu |-> [ppu EXCEPT !.bgp_reg = val]]
    ELSE IF addr = 65352 THEN [res |-> Ok, ppu |-> [ppu EXCEPT !.obp0_reg = val]]
    ELSE IF addr = 65353 THEN [res |-> Ok, ppu |-> [ppu EXCEPT !.obp1_reg = val]]
    ELSE IF addr = 65354 THEN [res |-> Ok, ppu |-> [ppu EXCEPT !.wy_reg = val]]
    ELSE IF addr = 65355 THEN [res |-> Ok, ppu |-> [ppu EXCEPT !.wx_reg = val]]
    ELSE [res |-> Panic("unreachable"), ppu |-> ppu]

(***************************************************************************)
(* Sound unit registers (gib-core/src/io/sound.rs).                        *)
(***************************************************************************)
CLK_64_RELOAD == 65536
CLK_128_RELOAD == 32768
CLK_256_RELOAD == 16384
\* ArrayQueue::new(1024): the capacity of the sample queue
SAMPLE_CAPACITY == 1024
\* f32::INFINITY, the sample period of a mixer whose rate was never set: no
\* counter value exceeds it
INFINITY == -1

\* bitflags from_bits_truncate: the bits the register type defines
NRx0_bits(v) == BitAnd(v, 127)
NRx1_bits(v) == BitAnd(v, 255)
NRx2_bits(v) == BitAnd(v, 255)
NRx4_bits(v) == BitAnd(v, 199)
NR50_bits(v) == BitAnd(v, 255)
NR51_bits(v) == BitAnd(v, 255)
NR52_bits(v) == BitAnd(v, 143)

\* ToneChannel::new
ToneChannel_new(nrx0, nrx1, nrx2, nrx3, nrx4, sweep_support) ==
    [nrx0 |-> nrx0, nrx1 |-> nrx1, nrx2 |-> nrx2, nrx3 |-> nrx3, nrx4 |-> nrx4,
     enabled |-> FALSE, sweep_support |-> sweep_support, timer_counter |-> 0,
     volume |-> 0, vol_ctr |-> 0, vol_env_enabled |-> FALSE,
     waveform_level |-> 1]

\* a trigger that enables the channel but keeps its volume
ToneChannel_write_to_nr4_keep(ch, val) ==
    LET c1 == [ch EXCEPT !.nrx4 = NRx4_bits(val)]
    IN  IF Bit(c1.nrx4, 7)
        THEN [c1 EXCEPT
                !.enabled = TRUE,
                !.nrx1 = IF BitAnd(c1.nrx1, 63) = 0 THEN BitOr(c1.nrx1, 63) ELSE c1.nrx1,
                !.vol_ctr = BitAnd(c1.nrx2, 7),
                !.vol_env_enabled = TRUE]
        ELSE c1

\* ToneChannel::write_to_nr4
ToneChannel_write_to_nr4(ch, val) ==
    LET c1 == [ch EXCEPT !.nrx4 = NRx4_bits(val)]
    IN  IF Bit(c1.nrx4, 7)
        THEN [c1 EXCEPT
                !.enabled = TRUE,
                !.nrx1 = IF BitAnd(c1.nrx1, 63) = 0 THEN BitOr(c1.nrx1, 63) ELSE c1.nrx1,
                !.volume = BitAnd(c1.nrx2, 240) \div 16,
                !.vol_ctr = BitAnd(c1.nrx2, 7),
                !.vol_env_enabled = TRUE]
        ELSE c1

\* ToneChannel::get_frequency
ToneChannel_get_frequency(ch) == BitAnd(ch.nrx4, 7) * 256 + ch.nrx3

\* the timer period computed by ToneChannel::tick
ToneChannel_period(ch) == (2048 - ToneChannel_get_frequency(ch)) * 32

\* the duty threshold computed by ToneChannel::tick
ToneChannel_threshold(ch) ==
    LET period == ToneChannel_period(ch)
        duty == BitAnd(ch.nrx1, 192) \div 64
    IN  IF duty = 0 THEN period \div 8
        ELSE IF duty = 1 THEN period \div 4
        ELSE IF duty = 2 THEN period \div 2
        ELSE (period * 3) \div 4

\* ToneChannel::tick
ToneChannel_tick(ch) ==
    LET counter == IF ch.timer_counter < 4
                   THEN ToneChannel_period(ch) - ch.timer_counter
                   ELSE ch.timer_counter - 4
    IN  [ch EXCEPT !.timer_counter = counter,
                   !.waveform_level = IF counter < ToneChannel_threshold(ch) THEN 1 ELSE 0]

\* ToneChannel::tick_vol_env
ToneChannel_tick_vol_env(ch) ==
    LET period == BitAnd(ch.nrx2, 7)
        nrx2 == NRx2_bits(BitOr(BitAnd(ch.nrx2, 248), period - 1))
        new_volume == IF Bit(nrx2, 3) THEN ch.volume + 1 ELSE ch.volume - 1
    IN  IF ch.vol_env_enabled /\ period > 0
        THEN IF new_volume <= 15
             THEN [ch EXCEPT !.nrx2 = nrx2, !.volume = new_volume]
             ELSE [ch EXCEPT !.nrx2 = nrx2, !.vol_env_enabled = FALSE]
        ELSE ch

\* a length clock that counts down but never disables the channel
ToneChannel_tick_len_ctr_on(ch) ==
    LET len == BitAnd(ch.nrx1, 63)
        nrx1 == NRx1_bits(BitOr(BitAnd(ch.nrx1, 192), len - 1))
    IN  IF Bit(ch.nrx4, 6) /\ len # 0
        THEN [ch EXCEPT !.nrx1 = nrx1]
        ELSE ch

\* ToneChannel::tick_len_ctr
ToneChannel_tick_len_ctr(ch) ==
    LET len == BitAnd(ch.nrx1, 63)
        nrx1 == NRx1_bits(BitOr(BitAnd(ch.nrx1, 192), len - 1))
    IN  IF Bit(ch.nrx4, 6) /\ len # 0
        THEN [ch EXCEPT !.nrx1 = nrx1,
                        !.enabled = IF len - 1 = 0 THEN FALSE ELSE @]
        ELSE ch

\* ToneChannel::get_volume
ToneChannel_get_volume(ch) == IF ch.enabled THEN ch.volume ELSE 0

\* ToneChannel::get_channel_out
ToneChannel_get_channel_out(ch) ==
    IF BitAnd(ch.nrx2, 248) # 0
    THEN ch.waveform_level * 2 * ToneChannel_get_volume(ch) - 15
    ELSE 0

\* ToneChannel::read
ToneChannel_read(ch, addr) ==
    IF addr = 0 THEN [res |-> Ok,
                      val |-> IF ch.sweep_support THEN BitOr(ch.nrx0, 128) ELSE 255]
    ELSE IF addr = 1 THEN [res |-> Ok, val |-> BitOr(ch.nrx1, 63)]
    ELSE IF addr = 2 THEN [res |-> Ok, val |-> ch.nrx2]
    ELSE IF addr = 3 THEN [res |-> Ok, val |-> BitOr(ch.nrx3, 255)]
    ELSE IF addr = 4 THEN [res |-> Ok, val |-> BitOr(ch.nrx4, 191)]
    ELSE [res |-> Panic("unreachable"), val |-> 0]

\* ToneChannel::write
ToneChannel_write(ch, addr, val) ==
    IF addr = 0 THEN [res |-> Ok, ch |-> [ch EXCEPT !.nrx0 = NRx0_bits(val)]]
    ELSE IF addr = 1 THEN [res |-> Ok, ch |-> [ch EXCEPT !.nrx1 = NRx1_bits(val)]]
    ELSE IF addr = 2 THEN [res |-> Ok, ch |-> [ch EXCEPT !.nrx2 = NRx2_bits(val)]]
    ELSE IF addr = 3 THEN [res |-> Ok, ch |-> [ch EXCEPT !.nrx3 = val]]
    ELSE IF addr = 4 THEN [res |-> Ok, ch |-> ToneChannel_write_to_nr4(ch, val)]
    ELSE [res |-> Panic("unreachable"), ch |-> ch]

\* APU::default with Mixer::default (control registers)
APU_default ==
    [ch1 |-> ToneChannel_new(NRx0_bits(128), NRx1_bits(143), NRx2_bits(243), 0,
                             NRx4_bits(191), TRUE),
     ch2 |-> ToneChannel_new(NRx0_bits(255), NRx1_bits(63), NRx2_bits(0), 0,
                             NRx4_bits(191), FALSE),
     ch3_snd_reg |-> 127, ch3_len_reg |-> 255, ch3_vol_reg |-> 159,
     ch3_flo_reg |-> 0, ch3_fhi_reg |-> 191,
     ch4_len_reg |-> 255, ch4_vol_reg |-> 0, ch4_cnt_reg |-> 0, ch4_ini_reg |-> 191,
     nr50 |-> NR50_bits(119), nr51 |-> NR51_bits(243), nr52 |-> NR52_bits(241),
     sample_rate_counter |-> 0, sample_channel |-> << >>, sample_period |-> INFINITY,
     wave_ram |-> EmptyMap,
     clk_64 |-> CLK_64_RELOAD, clk_128 |-> CLK_128_RELOAD, clk_256 |-> CLK_256_RELOAD]

\* a queue that hands out the newest sample first
Queue_push_front(q, sample) ==
    IF Len(q) >= SAMPLE_CAPACITY THEN q ELSE << sample >> \o q

\* a queue that makes room for the new sample by dropping the oldest one
Queue_push_evict(q, sample) ==
    IF Len(q) >= SAMPLE_CAPACITY THEN Append(Tail(q), sample) ELSE Append(q, sample)

\* ArrayQueue::push followed by unwrap_or(()): a full queue refuses the
\* sample, and the refusal is discarded
Queue_push(q, sample) == IF Len(q) >= SAMPLE_CAPACITY THEN q ELSE Append(q, sample)

\* ArrayQueue::pop on the handle APU::get_sample_channel returns: the oldest
\* sample, if there is one, leaves the queue
Queue_pop(q) ==
    IF Len(q) = 0 THEN [some |-> FALSE, val |-> 0, q |-> q]
    ELSE [some |-> TRUE, val |-> Head(q), q |-> Tail(q)]

\* i16 division by two, which truncates towards zero
Halved(x) == IF x >= 0 THEN x \div 2 ELSE -((-x) \div 2)

\* the sample Mixer::tick computes from the two channel outputs
Mixer_sample(apu, ch1, ch2) ==
    LET so2 == ((IF Bit(apu.nr51, 4) THEN ch1 ELSE 0) + (IF Bit(apu.nr51, 5) THEN ch2 ELSE 0))
               * (1 + BitAnd(apu.nr50, 112) \div 16)
        so1 == ((IF Bit(apu.nr51, 0) THEN ch1 ELSE 0) + (IF Bit(apu.nr51, 1) THEN ch2 ELSE 0))
               * (1 + BitAnd(apu.nr50, 7))
    IN  IF ~Bit(apu.nr52, 7) THEN 0 ELSE Halved(so1 + so2)

\* whether Mixer::tick emits a sample once its counter has been advanced
Mixer_due(apu) ==
    apu.sample_period # INFINITY /\ apu.sample_rate_counter + 4 > apu.sample_period

\* Mixer::tick
Mixer_tick(apu, ch1, ch2) ==
    IF Mixer_due(apu)
    THEN [apu EXCEPT !.sample_rate_counter = @ + 4 - apu.sample_period,
                     !.sample_channel = Queue_push(@, Mixer_sample(apu, ch1, ch2))]
    ELSE [apu EXCEPT !.sample_rate_counter = @ + 4]

\* APU::tick
APU_tick(apu) ==
    LET clk_64 == apu.clk_64 - 4
        clk_128 == apu.clk_128 - 4
        clk_256 == apu.clk_256 - 4
        t1 == ToneChannel_tick(apu.ch1)
        t2 == ToneChannel_tick(apu.ch2)
        e1 == IF clk_64 = 0 THEN ToneChannel_tick_vol_env(t1) ELSE t1
        e2 == IF clk_64 = 0 THEN ToneChannel_tick_vol_env(t2) ELSE t2
        l1 == IF clk_256 = 0 THEN ToneChannel_tick_len_ctr(e1) ELSE e1
        l2 == IF clk_256 = 0 THEN ToneChannel_tick_len_ctr(e2) ELSE e2
    IN  Mixer_tick([apu EXCEPT !.clk_64 = IF clk_64 = 0 THEN CLK_64_RELOAD ELSE clk_64,
                               !.clk_128 = IF clk_128 = 0 THEN CLK_128_RELOAD ELSE clk_128,
                               !.clk_256 = IF clk_256 = 0 THEN CLK_256_RELOAD ELSE clk_256,
                               !.ch1 = l1,
                               !.ch2 = l2],
                   ToneChannel_get_channel_out(l1), ToneChannel_get_channel_out(l2))

\* APU::set_sample_rate, for the rates that divide the CPU clock, so that
\* the f32 quotient is exact
APU_set_sample_rate(apu, sample_rate) ==
    [apu EXCEPT !.sample_period = 4194304 \div sample_rate,
                !.sample_rate_counter = 0]

\* APU::new
APU_new(sample_rate) == APU_set_sample_rate(APU_default, sample_rate)

\* APU::read
APU_read(apu, addr) ==
    IF addr >= 65296 /\ addr <= 65300 THEN ToneChannel_read(apu.ch1, addr - 65296)
    ELSE IF addr >= 65301 /\ addr <= 65305 THEN ToneChannel_read(apu.ch2, addr - 65301)
    ELSE IF addr = 65306 THEN [res |-> Ok, val |-> BitOr(apu.ch3_snd_reg, 127)]
    ELSE IF addr = 65307 THEN [res |-> Ok, val |-> apu.ch3_len_reg]
    ELSE IF addr = 65308 THEN [res |-> Ok, val |-> BitOr(apu.ch3_vol_reg, 159)]
    ELSE IF addr = 65309 THEN [res |-> Ok, val |-> BitOr(apu.ch3_flo_reg, 255)]
    ELSE IF addr = 65310 THEN [res |-> Ok, val |-> BitOr(apu.ch3_fhi_reg, 191)]
    ELSE IF addr = 65312 THEN [res |-> Ok, val |-> BitOr(apu.ch4_len_reg, 192)]
    ELSE IF addr = 65313 THEN [res |-> Ok, val |-> apu.ch4_vol_reg]
    ELSE IF addr = 65314 THEN [res |-> Ok, val |-> apu.ch4_cnt_reg]
    ELSE IF addr = 65315 THEN [res |-> Ok, val |-> BitOr(apu.ch4_ini_reg, 191)]
    ELSE IF addr = 65316 THEN [res |-> Ok, val |-> apu.nr50]
    ELSE IF addr = 65317 THEN [res |-> Ok, val |-> apu.nr51]
    ELSE IF addr = 65318 THEN [res |-> Ok, val |-> BitOr(apu.nr52, 112)]
    ELSE IF addr >= 65328 /\ addr <= 65343
        THEN [res |-> Ok, val |-> SparseGet(apu.wave_ram, addr - 65328)]
    ELSE [res |-> Ok, val |-> 255]

\* APU::write
APU_write(apu, addr, val) ==
    IF addr >= 65296 /\ addr <= 65300
        THEN LET w == ToneChannel_write(apu.ch1, addr - 65296, val)
             IN  [res |-> w.res, apu |-> [apu EXCEPT !.ch1 = w.ch]]
    ELSE IF addr >= 65301 /\ addr <= 65305
        THEN LET w == ToneChannel_write(apu.ch2, addr - 65301, val)
             IN  [res |-> w.res, apu |-> [apu EXCEPT !.ch2 = w.ch]]
    ELSE IF addr = 65306 THEN [res |-> Ok, apu |-> [apu EXCEPT !.ch3_snd_reg = val]]
    ELSE IF addr = 65307 THEN [res |-> Ok, apu |-> [apu EXCEPT !.ch3_len_reg = val]]
    ELSE IF addr = 65308 THEN [res |-> Ok, apu |-> [apu EXCEPT !.ch3_vol_reg = val]]
    ELSE IF addr = 65309 THEN [res |-> Ok, apu |-> [apu EXCEPT !.ch3_flo_reg = val]]
    ELSE IF addr = 65310 THEN [res |-> Ok, apu |-> [apu EXCEPT !.ch3_fhi_reg = val]]
    ELSE IF addr = 65312 THEN [res |-> Ok, apu |-> [apu EXCEPT !.ch4_len_reg = val]]
    ELSE IF addr = 65313 THEN [res |-> Ok, apu |-> [apu EXCEPT !.ch4_vol_reg = val]]
    ELSE IF addr = 65314 THEN [res |-> Ok, apu |-> [apu EXCEPT !.ch4_cnt_reg = val]]
    ELSE IF addr = 65315 THEN [res |-> Ok, apu |-> [apu EXCEPT !.ch4_ini_reg = val]]
    ELSE IF addr = 65316 THEN [res |-> Ok, apu |-> [apu EXCEPT !.nr50 = NR50_bits(val)]]
    ELSE IF addr = 65317 THEN [res |-> Ok, apu |-> [apu EXCEPT !.nr51 = NR51_bits(val)]]
    ELSE IF addr = 65318 THEN [res |-> Ok, apu |-> [apu EXCEPT !.nr52 = NR52_bits(val)]]
    ELSE IF addr >= 65328 /\ addr <= 65343
        THEN [res |-> Ok, apu |-> [apu EXCEPT !.wave_ram = SparsePut(@, addr - 65328, val)]]
    ELSE [res |-> Ok, apu |-> apu]

(***************************************************************************)
(* Bus (bus.rs).  The joypad, serial, timer and interrupt registers are    *)
(* kept as one register file `io`.                                         *)
(***************************************************************************)
\* MbcType::try_from taking 0x04 for an MBC1 cartridge as well
MbcType_try_from_wide(n) ==
    IF n = 0 THEN [res |-> Ok, mbc |-> "None"]
    ELSE IF n >= 1 /\ n <= 4 THEN [res |-> Ok, mbc |-> "MBC1"]
    ELSE [res |-> UnsupportedMbcType(n), mbc |-> "None"]

\* MbcType::try_from
MbcType_try_from(n) ==
    IF n = 0 THEN [res |-> Ok, mbc |-> "None"]
    ELSE IF n >= 1 /\ n <= 3 THEN [res |-> Ok, mbc |-> "MBC1"]
    ELSE [res |-> UnsupportedMbcType(n), mbc |-> "None"]

\* Bus::default
Bus_default ==
    [rom_banks |-> << >>,
     rom_nn |-> 1,
     rom_backup |-> [i \in 0..(BOOT_LEN - 1) |-> 0],
     eram |-> Memory_new(ERAM_SIZE),
     hram |-> Memory_new(HRAM_SIZE),
     wram_00 |-> Memory_new(WRAM_SIZE),
     wram_nn |-> Memory_new(WRAM_SIZE),
     apu |-> APU_default,
     ppu |-> PPU_default,
     io |-> EmptyMap,
     mbc |-> "None"]

\* data[i] = f[i] for every i < n, as n successive Memory::write calls leave it
StoreBlock(m, n, f) ==
    [m EXCEPT !.over =
        [x \in ((DOMAIN m.over) \ (0..(n - 1)))
                 \cup {i \in 0..(n - 1) : f[i] # FillByte(m.fill, i)} |->
            IF x < n THEN f[x] ELSE m.over[x]]]

\* the iterations of a loop over 0..255 on a Memory that complete before one
\* of its accesses returns a MemFault
LoopCount(m) == IF m.size >= BOOT_LEN THEN BOOT_LEN ELSE m.size

\* enable_bootrom with the two statements of the loop body exchanged: the
\* backup is taken after the overlay byte is written
Bus_enable_bootrom_swapped(b) ==
    IF Len(b.rom_banks) = 0 THEN [res |-> Panic("index out of bounds"), bus |-> b]
    ELSE LET bank == b.rom_banks[1]
             n == LoopCount(bank)
         IN  [res |-> IF n = BOOT_LEN THEN Ok ELSE MemFault(n),
              bus |-> [b EXCEPT
                        !.rom_backup = [i \in 0..(BOOT_LEN - 1) |->
                                          IF i < n THEN BOOT_ROM[i + 1] ELSE b.rom_backup[i]],
                        !.rom_banks[1] = StoreBlock(bank, n,
                                          [i \in 0..(BOOT_LEN - 1) |-> BOOT_ROM[i + 1]])]]

\* Bus::enable_bootrom: each iteration saves rom_banks[0][i] and overwrites
\* it with BOOT_ROM[i]
Bus_enable_bootrom(b) ==
    IF Len(b.rom_banks) = 0 THEN [res |-> Panic("index out of bounds"), bus |-> b]
    ELSE LET bank == b.rom_banks[1]
             n == LoopCount(bank)
         IN  [res |-> IF n = BOOT_LEN THEN Ok ELSE MemFault(n),
              bus |-> [b EXCEPT
                        !.rom_backup = [i \in 0..(BOOT_LEN - 1) |->
                                          IF i < n THEN Cell(bank, i) ELSE b.rom_backup[i]],
                        !.rom_banks[1] = StoreBlock(bank, n,
                                          [i \in 0..(BOOT_LEN - 1) |-> BOOT_ROM[i + 1]])]]

\* Bus::disable_bootrom: each iteration writes rom_backup[i] to rom_banks[0][i]
Bus_disable_bootrom(b) ==
    IF Len(b.rom_banks) = 0 THEN [res |-> Panic("index out of bounds"), bus |-> b]
    ELSE LET bank == b.rom_banks[1]
             n == LoopCount(bank)
         IN  [res |-> IF n = BOOT_LEN THEN Ok ELSE MemFault(n),
              bus |-> [b EXCEPT !.rom_banks[1] = StoreBlock(bank, n, b.rom_backup)]]

\* the banks rom.chunks(0x4000) yields, each copied into a Memory::new(0x4000)
RomChunks(rom) ==
    [k \in 1..((rom.len + BANK_SIZE - 1) \div BANK_SIZE) |->
        [size |-> BANK_SIZE,
         fill |-> [img |-> rom, base |-> (k - 1) * BANK_SIZE],
         over |-> EmptyMap]]

\* Bus::load_rom
Bus_load_rom(b, rom) ==
    LET pushed == [b EXCEPT !.rom_banks = b.rom_banks \o RomChunks(rom)]
    IN  IF rom.len <= MBC_HEADER
        THEN [res |-> Panic("index out of bounds"), bus |-> pushed]
        ELSE LET ty == MbcType_try_from(ImageByte(rom, MBC_HEADER))
             IN  IF ty.res # Ok THEN [res |-> ty.res, bus |-> pushed]
                 ELSE Bus_enable_bootrom([pushed EXCEPT !.mbc = ty.mbc])

\* ram_enable that stores the written value in the first ROM bank
Bus_ram_enable_stored(b, val) ==
    IF Len(b.rom_banks) = 0 THEN [res |-> Ok, bus |-> b]
    ELSE [res |-> Ok, bus |-> [b EXCEPT !.rom_banks[1] = Store(@, BOOT_LEN, val)]]

\* Bus::ram_enable
Bus_ram_enable(b, val) == [res |-> Ok, bus |-> b]

\* rom_select without the special case for 0 and with 0x20 in the range
Bus_rom_select_plain(b, val) ==
    IF val >= 0 /\ val <= MAX_ROM_BANK + 1 THEN [res |-> Ok, bus |-> [b EXCEPT !.rom_nn = val]]
    ELSE [res |-> InvalidMbcOp("RomBank", val), bus |-> b]

\* Bus::rom_select
Bus_rom_select(b, val) ==
    IF val = 0 THEN [res |-> Ok, bus |-> [b EXCEPT !.rom_nn = 1]]
    ELSE IF val >= 1 /\ val <= MAX_ROM_BANK THEN [res |-> Ok, bus |-> [b EXCEPT !.rom_nn = val]]
    ELSE [res |-> InvalidMbcOp("RomBank", val), bus |-> b]

\* ram_rom_select accepting the write without doing anything
Bus_ram_rom_select_quiet(b, val) == [res |-> Ok, bus |-> b]

\* Bus::ram_rom_select
Bus_ram_rom_select(b, val) == [res |-> InvalidMbcOp("RamBank", val), bus |-> b]

\* Bus::mode_select
Bus_mode_select(b, val) == [res |-> InvalidMbcOp("RamBank", val), bus |-> b]

\* Bus::write_to_cgb_functions
Bus_write_to_cgb_functions(b, addr, val) ==
    IF addr = 65357 THEN [res |-> CgbSpeedSwitchReq, bus |-> b]
    ELSE [res |-> UnsupportedCgbOp(addr), bus |-> b]

\* read and write of the joypad, serial, timer and interrupt registers
Io_read(b, addr) == [res |-> Ok, val |-> SparseGet(b.io, addr)]

Io_write(b, addr, val) == [res |-> Ok, bus |-> [b EXCEPT !.io = SparsePut(@, addr, val)]]

IoAddr(addr) ==
    \/ addr = 65280
    \/ addr >= 65281 /\ addr <= 65282
    \/ addr >= 65284 /\ addr <= 65287
    \/ addr = 65295
    \/ addr = 65535

\* Bus::read::<u8>
Bus_read(b, addr) ==
    IF addr <= 16383
        THEN IF Len(b.rom_banks) = 0 THEN [res |-> Panic("index out of bounds"), val |-> 0]
             ELSE Memory_read(b.rom_banks[1], addr)
    ELSE IF addr <= 32767
        THEN IF b.rom_nn >= Len(b.rom_banks)
             THEN [res |-> Panic("index out of bounds"), val |-> 0]
             ELSE Memory_read(b.rom_banks[b.rom_nn + 1], addr - 16384)
    ELSE IF addr <= 40959 THEN PPU_read(b.ppu, addr)
    ELSE IF addr <= 49151 THEN Memory_read(b.eram, addr - 40960)
    ELSE IF addr <= 53247 THEN Memory_read(b.wram_00, addr - 49152)
    ELSE IF addr <= 57343 THEN Memory_read(b.wram_nn, addr - 53248)
    ELSE IF addr <= 61439 THEN Memory_read(b.wram_00, addr - 57344)
    ELSE IF addr <= 65023 THEN Memory_read(b.wram_nn, addr - 61440)
    ELSE IF addr <= 65183 THEN PPU_read(b.ppu, addr)
    ELSE IF addr >= 65296 /\ addr <= 65343 THEN APU_read(b.apu, addr)
    ELSE IF addr >= 65344 /\ addr <= 65359 THEN PPU_read(b.ppu, addr)
    ELSE IF addr >= 65361 /\ addr <= 65391 THEN PPU_read(b.ppu, addr)
    ELSE IF addr >= 65408 /\ addr <= 65534 THEN Memory_read(b.hram, addr - 65408)
    ELSE IF IoAddr(addr) THEN Io_read(b, addr)
    ELSE [res |-> BusFault(addr), val |-> 0]

\* the bus with the picture unit / sound unit a peripheral write returned
WithPpu(b, w) == [res |-> w.res, bus |-> [b EXCEPT !.ppu = w.ppu]]

WithApu(b, w) == [res |-> w.res, bus |-> [b EXCEPT !.apu = w.apu]]

WithMem(b, field, w) == [res |-> w.res, bus |-> [b EXCEPT ![field] = w.mem]]

\* Bus::write::<u8>
Bus_write(b, addr, val) ==
    IF addr <= 8191 THEN Bus_ram_enable(b, val)
    ELSE IF addr <= 16383 THEN Bus_rom_select(b, val)
    ELSE IF addr <= 24575 THEN Bus_ram_rom_select(b, val)
    ELSE IF addr <= 32767 THEN Bus_mode_select(b, val)
    ELSE IF addr <= 40959 THEN WithPpu(b, PPU_write(b.ppu, addr, val))
    ELSE IF addr <= 49151 THEN WithMem(b, "eram", Memory_write(b.eram, addr - 40960, val))
    ELSE IF addr <= 53247 THEN WithMem(b, "wram_00", Memory_write(b.wram_00, addr - 49152, val))
    ELSE IF addr <= 57343 THEN WithMem(b, "wram_nn", Memory_write(b.wram_nn, addr - 53248, val))
    ELSE IF addr <= 61439 THEN WithMem(b, "wram_00", Memory_write(b.wram_00, addr - 57344, val))
    ELSE IF addr <= 65023 THEN WithMem(b, "wram_nn", Memory_write(b.wram_nn, addr - 61440, val))
    ELSE IF addr <= 65183 THEN WithPpu(b, PPU_write(b.ppu, addr, val))
    ELSE IF addr <= 65279 THEN [res |-> Ok, bus |-> b]
    ELSE IF addr >= 65296 /\ addr <= 65343 THEN WithApu(b, APU_write(b.apu, addr, val))
    ELSE IF addr >= 65344 /\ addr <= 65355 THEN WithPpu(b, PPU_write(b.ppu, addr, val))
    ELSE IF addr >= 65357 /\ addr <= 65359 THEN Bus_write_to_cgb_functions(b, addr, val)
    ELSE IF addr >= 65361 /\ addr <= 65391 THEN WithPpu(b, PPU_write(b.ppu, addr, val))
    ELSE IF addr >= 65392 /\ addr <= 65407 THEN Bus_write_to_cgb_functions(b, addr, val)
    ELSE IF addr >= 65408 /\ addr <= 65534 THEN WithMem(b, "hram", Memory_write(b.hram, addr - 65408, val))
    ELSE IF IoAddr(addr) THEN Io_write(b, addr, val)
    ELSE IF addr = 65360 THEN Bus_disable_bootrom(b)
    ELSE [res |-> BusFault(addr), bus |-> b]

\* the RAM block Bus::read and Bus::write route an address to, and the
\* address it is rebased by
RamAt(addr) ==
    IF addr >= 40960 /\ addr <= 49151 THEN [field |-> "eram", base |-> 40960]
    ELSE IF addr >= 49152 /\ addr <= 53247 THEN [field |-> "wram_00", base |-> 49152]
    ELSE IF addr >= 53248 /\ addr <= 57343 THEN [field |-> "wram_nn", base |-> 53248]
    ELSE IF addr >= 57344 /\ addr <= 61439 THEN [field |-> "wram_00", base |-> 57344]
    ELSE IF addr >= 61440 /\ addr <= 65023 THEN [field |-> "wram_nn", base |-> 61440]
    ELSE IF addr >= 65408 /\ addr <= 65534 THEN [field |-> "hram", base |-> 65408]
    ELSE [field |-> "none", base |-> 0]

\* a 16-bit access outside the RAM blocks is not followed by this model
NotRam16 == [kind |-> "NotModelled", what |-> "16-bit access outside RAM"]

\* Bus::read::<u16>, the arms that route to a RAM block
Bus_read16(b, addr) ==
    LET r == RamAt(addr)
    IN  IF r.field = "none" THEN [res |-> NotRam16, val |-> 0]
        ELSE Memory_read16(b[r.field], addr - r.base)

\* Bus::write::<u16>, the arms that route to a RAM block
Bus_write16(b, addr, val) ==
    LET r == RamAt(addr)
    IN  IF r.field = "none" THEN [res |-> NotRam16, bus |-> b]
        ELSE WithMem(b, r.field, Memory_write16(b[r.field], addr - r.base, val))

(***************************************************************************)
(* CPU (cpu/opcodes.rs).  A machine value m = [cpu, bus, res] is the CPU,  *)
(* the bus it drives and the first fault met so far.                       *)
(***************************************************************************)
\* the register file when the machine is constructed
CPU_new ==
    [af |-> 0, bc |-> 0, de |-> 0, hl |-> 0, sp |-> 0, pc |-> 0,
     clk |-> 0, halted |-> FALSE, intr_enabled |-> FALSE]

\* register halves and flags
Hi(r) == r \div 256
Lo(r) == r % 256
SetHi(r, v) == v * 256 + Lo(r)
SetLo(r, v) == Hi(r) * 256 + v

zf(cpu) == Bit(cpu.af, 7)
sf(cpu) == Bit(cpu.af, 6)
hc(cpu) == Bit(cpu.af, 5)
cy(cpu) == Bit(cpu.af, 4)

SetFlagBit(af, n, on) ==
    IF on = Bit(af, n) THEN af
    ELSE IF on THEN af + 2 ^ n ELSE af - 2 ^ n

set_zf(cpu, on) == [cpu EXCEPT !.af = SetFlagBit(@, 7, on)]
set_sf(cpu, on) == [cpu EXCEPT !.af = SetFlagBit(@, 6, on)]
set_hc(cpu, on) == [cpu EXCEPT !.af = SetFlagBit(@, 5, on)]
set_cy(cpu, on) == [cpu EXCEPT !.af = SetFlagBit(@, 4, on)]

\* the 8-bit register an opcode's low three bits select (6 is (HL))
Reg8(cpu, r) ==
    IF r = 0 THEN Hi(cpu.bc) ELSE IF r = 1 THEN Lo(cpu.bc)
    ELSE IF r = 2 THEN Hi(cpu.de) ELSE IF r = 3 THEN Lo(cpu.de)
    ELSE IF r = 4 THEN Hi(cpu.hl) ELSE IF r = 5 THEN Lo(cpu.hl)
    ELSE Hi(cpu.af)

\* the machine after a fetch that read r: pc advanced, one machine cycle
Fetched(m, r) ==
    [val |-> r.val,
     m |-> [cpu |-> [m.cpu EXCEPT !.pc = (@ + 1) % 65536, !.clk = @ + 4],
            bus |-> m.bus,
            res |-> IF m.res # Ok THEN m.res ELSE r.res]]

\* CPU::fetch::<u8>: read at pc, advance pc, one machine cycle
Fetch8(m) == Fetched(m, Bus_read(m.bus, m.cpu.pc))

\* the high byte of a 16-bit fetch joined to the low byte lo
FetchHi(lo, hi) == [val |-> lo.val + 256 * hi.val, m |-> hi.m]

FetchAfter(lo) == FetchHi(lo, Fetch8(lo.m))

\* CPU::fetch::<u16>: little-endian
Fetch16(m) == FetchAfter(Fetch8(m))

\* an i8 operand
ToSigned(v) == IF v >= 128 THEN v - 256 ELSE v

\* jp! that charges the branch cycles whether or not the jump is taken
jp_paid(m, cond, abs) ==
    IF cond THEN [m EXCEPT !.cpu.pc = abs, !.cpu.clk = @ + 4]
    ELSE [m EXCEPT !.cpu.clk = @ + 4]

\* jp!
jp(m, cond, abs) ==
    IF cond THEN [m EXCEPT !.cpu.pc = abs, !.cpu.clk = @ + 4] ELSE m

\* jr!
jr(m, cond, offset) == jp(m, cond, (m.cpu.pc + offset) % 65536)

\* cmp!
cmp(m, a, b) ==
    [m EXCEPT !.cpu =
        [set_cy(set_hc(set_sf(set_zf(m.cpu, a = b), TRUE), (b % 16) > (a % 16)), b > a)
            EXCEPT !.clk = @ + 4]]

\* the machine after a bus write, made by an instruction, that returned w
Written(m, w) ==
    IF m.res # Ok THEN m ELSE [m EXCEPT !.bus = w.bus, !.res = w.res]

\* a bus write made by an instruction
OpWrite(m, addr, val) == Written(m, Bus_write(m.bus, addr, val))

\* a bus read into A made by an instruction, r being what the read returned
OpReadA(m, r) ==
    IF m.res # Ok THEN m ELSE [m EXCEPT !.cpu.af = SetHi(@, r.val), !.res = r.res]

\* the opcodes CPU::op rejects
InvalidOpcodes == {211, 219, 221, 227, 228, 235, 236, 237, 244, 252, 253}

\* opcodes 0x10 and 0x76
HaltOpcodes == {16, 118}

\* the halt arm doing nothing
op_halt_nop(m) == m

\* what CPU::op does for opcode 0x10 | 0x76
op_halt(m) == [m EXCEPT !.cpu.halted = TRUE]

\* the invalid-opcode arm doing nothing
op_invalid_skip(m, opcode) == m

\* what CPU::op does for an opcode of the invalid set
op_invalid(m, opcode) ==
    [m EXCEPT !.res = [kind |-> "Panic", what |-> "unexpected opcode",
                       pc |-> m.cpu.pc, opcode |-> opcode]]

\* 0x27 and 0xF8, whose arm is unimplemented!()
UnimplementedOpcodes == {39, 248}

\* what an arm that is unimplemented!() does
op_unimplemented(m) == [m EXCEPT !.res = Panic("not implemented")]

\* the opcodes of CPU::op this model executes: those followed by an 8-bit
\* operand, those followed by a 16-bit operand, and those without operand
Imm8Opcodes == {24, 32, 40, 48, 56, 6, 14, 22, 30, 38, 46, 62, 224, 240, 254}

Imm16Opcodes == {194, 202, 210, 218, 195, 234, 250}

PlainOpcodes == {0, 243, 251, 233, 184, 185, 186, 187, 188, 189, 191}

ModelledOpcodes ==
    Imm8Opcodes \cup Imm16Opcodes \cup PlainOpcodes \cup HaltOpcodes \cup InvalidOpcodes

\* the condition of a conditional jump: NZ, NC, Z, C or none
JumpCond(cpu, opcode) ==
    IF opcode \in {32, 194} THEN ~zf(cpu)
    ELSE IF opcode \in {48, 210} THEN ~cy(cpu)
    ELSE IF opcode \in {40, 202} THEN zf(cpu)
    ELSE IF opcode \in {56, 218} THEN cy(cpu)
    ELSE TRUE

\* CPU::op, the arms that fetch an 8-bit operand; f is the fetch made
op_d8(f, opcode) ==
    IF opcode \in {32, 48, 40, 56, 24}
        THEN jr(f.m, JumpCond(f.m.cpu, opcode), ToSigned(f.val))
    ELSE IF opcode = 6 THEN [f.m EXCEPT !.cpu.bc = SetHi(@, f.val)]
    ELSE IF opcode = 22 THEN [f.m EXCEPT !.cpu.de = SetHi(@, f.val)]
    ELSE IF opcode = 38 THEN [f.m EXCEPT !.cpu.de = SetHi(@, f.val)]
    ELSE IF opcode = 14 THEN [f.m EXCEPT !.cpu.bc = SetLo(@, f.val)]
    ELSE IF opcode = 30 THEN [f.m EXCEPT !.cpu.de = SetLo(@, f.val)]
    ELSE IF opcode = 46 THEN [f.m EXCEPT !.cpu.hl = SetLo(@, f.val)]
    ELSE IF opcode = 62 THEN [f.m EXCEPT !.cpu.af = SetHi(@, f.val)]
    ELSE IF opcode = 224 THEN OpWrite(f.m, 65280 + f.val, Hi(f.m.cpu.af))
    ELSE IF opcode = 240 THEN OpReadA(f.m, Bus_read(f.m.bus, 65280 + f.val))
    ELSE cmp(f.m, Hi(f.m.cpu.af), f.val)

\* CPU::op, the arms that fetch a 16-bit operand; f is the fetch made
op_d16(f, opcode) ==
    IF opcode \in {194, 210, 202, 218, 195}
        THEN jp(f.m, JumpCond(f.m.cpu, opcode), f.val)
    ELSE IF opcode = 234 THEN OpWrite(f.m, f.val, Hi(f.m.cpu.af))
    ELSE OpReadA(f.m, Bus_read(f.m.bus, f.val))

\* CPU::op
CPU_op(m, opcode) ==
    IF opcode = 0 THEN m
    ELSE IF opcode \in HaltOpcodes THEN op_halt(m)
    ELSE IF opcode = 243 THEN [m EXCEPT !.cpu.intr_enabled = FALSE]
    ELSE IF opcode = 251 THEN [m EXCEPT !.cpu.intr_enabled = TRUE]
    ELSE IF opcode \in Imm8Opcodes THEN op_d8(Fetch8(m), opcode)
    ELSE IF opcode \in Imm16Opcodes THEN op_d16(Fetch16(m), opcode)
    ELSE IF opcode = 233 THEN jp(m, TRUE, m.cpu.hl)
    ELSE IF opcode \in {184, 185, 186, 187, 188, 189, 191}
        THEN cmp(m, Hi(m.cpu.af), Reg8(m.cpu, opcode - 184))
    ELSE IF opcode \in InvalidOpcodes THEN op_invalid(m, opcode)
    ELSE IF opcode \in UnimplementedOpcodes THEN op_unimplemented(m)
    ELSE [m EXCEPT !.res = [kind |-> "NotModelled", opcode |-> opcode]]

\* u8 and u16 arithmetic written with +, - : in a build with overflow checks
\* (the dev profile) a result outside the type panics, in a build without
\* them (the release profile) it wraps
Arith(x, width, checks) ==
    [val |-> x % width, ovf |-> checks /\ (x < 0 \/ x >= width)]

Overflowed == Panic("arithmetic overflow")

\* the operand expression of an 8-bit arithmetic arm: self.r(), or
\* self.r() + u8::from(self.cy())
AluOperand(cpu, r, with_cy, checks) ==
    Arith(Reg8(cpu, r) + (IF with_cy /\ cy(cpu) THEN 1 ELSE 0), 256, checks)

\* set_b .. set_a, chosen by the register number of Reg8
SetReg8(cpu, r, v) ==
    IF r = 0 THEN [cpu EXCEPT !.bc = SetHi(@, v)]
    ELSE IF r = 1 THEN [cpu EXCEPT !.bc = SetLo(@, v)]
    ELSE IF r = 2 THEN [cpu EXCEPT !.de = SetHi(@, v)]
    ELSE IF r = 3 THEN [cpu EXCEPT !.de = SetLo(@, v)]
    ELSE IF r = 4 THEN [cpu EXCEPT !.hl = SetHi(@, v)]
    ELSE IF r = 5 THEN [cpu EXCEPT !.hl = SetLo(@, v)]
    ELSE [cpu EXCEPT !.af = SetHi(@, v)]

\* inc! applied to register r, and the set_r that follows it
inc(m, r, checks) ==
    LET v == Reg8(m.cpu, r)
        n == Arith(v + 1, 256, checks)
        flagged == set_hc(set_sf(set_zf(m.cpu, n.val = 0), FALSE), v % 16 = 15)
    IN  IF n.ovf THEN [m EXCEPT !.res = Overflowed]
        ELSE [m EXCEPT !.cpu = SetReg8(flagged, r, n.val)]

\* dec! applied to register r, and the set_r that follows it
dec(m, r, checks) ==
    LET v == Reg8(m.cpu, r)
        n == Arith(v - 1, 256, checks)
        flagged == set_hc(set_sf(set_zf(m.cpu, n.val = 0), TRUE), v % 16 = 0)
    IN  IF n.ovf THEN [m EXCEPT !.res = Overflowed]
        ELSE [m EXCEPT !.cpu = SetReg8(flagged, r, n.val)]

\* add! with the operand expression of register r; the macro evaluates the
\* expression once for the sum and once more, after A and the zero and
\* subtract flags are set, for the half-carry
add(m, r, with_cy, checks) ==
    LET old == Hi(m.cpu.af)
        v == AluOperand(m.cpu, r, with_cy, checks)
        sum == Arith(old + v.val, 256, checks)
        summed == [m.cpu EXCEPT !.af = SetHi(@, sum.val)]
        flagged == set_sf(set_zf(summed, sum.val = 0), FALSE)
        again == AluOperand(flagged, r, with_cy, checks)
        halved == set_hc(flagged, (old % 16) + (again.val % 16) >= 16)
    IN  IF v.ovf \/ sum.ovf THEN [m EXCEPT !.res = Overflowed]
        ELSE IF again.ovf THEN [m EXCEPT !.cpu = flagged, !.res = Overflowed]
        ELSE [m EXCEPT !.cpu = set_cy(halved, sum.val < old)]

\* sub! with the operand expression of register r; the macro evaluates the
\* expression once for the difference and again, after A is set, inside cmp!
sub(m, r, with_cy, checks) ==
    LET old == Hi(m.cpu.af)
        v == AluOperand(m.cpu, r, with_cy, checks)
        diff == Arith(old - v.val, 256, checks)
        stored == [m EXCEPT !.cpu.af = SetHi(@, diff.val)]
        again == AluOperand(stored.cpu, r, with_cy, checks)
    IN  IF v.ovf \/ diff.ovf THEN [m EXCEPT !.res = Overflowed]
        ELSE IF again.ovf THEN [stored EXCEPT !.res = Overflowed]
        ELSE cmp(stored, old, again.val)

\* the 16-bit register an add16 arm names: bc, de, hl, sp
Reg16(cpu, rr) ==
    IF rr = 0 THEN cpu.bc ELSE IF rr = 1 THEN cpu.de ELSE IF rr = 2 THEN cpu.hl ELSE cpu.sp

\* add16! with destination hl and source register rr; the macro evaluates
\* the source once for the sum and once more, after hl is set, for the
\* half-carry
add16(m, rr, checks) ==
    LET old == m.cpu.hl
        sum == Arith(old + Reg16(m.cpu, rr), 65536, checks)
        summed == set_sf([m.cpu EXCEPT !.hl = sum.val], FALSE)
        again == Reg16(summed, rr)
        halved == set_hc(summed, (old % 16) + (again % 16) >= 16)
    IN  IF sum.ovf THEN [m EXCEPT !.res = Overflowed]
        ELSE [m EXCEPT !.cpu = set_cy(halved, sum.val < old)]

\* the register forms of the arithmetic opcodes: INC r, DEC r, ADD A,r,
\* ADC A,r, SUB r, SBC A,r, CP r, ADD HL,rr
IncOpcodes == {4, 12, 20, 28, 36, 44, 60}
DecOpcodes == {5, 13, 21, 29, 37, 45, 61}
AddOpcodes == {128, 129, 130, 131, 132, 133, 135}
AdcOpcodes == {136, 137, 138, 139, 140, 141, 143}
SubOpcodes == {144, 145, 146, 147, 148, 149, 151}
SbcOpcodes == {152, 153, 154, 155, 156, 157, 159}
CpOpcodes == {184, 185, 186, 187, 188, 189, 191}
Add16Opcodes == {9, 25, 41, 57}

ArithOpcodes ==
    IncOpcodes \cup DecOpcodes \cup AddOpcodes \cup AdcOpcodes \cup SubOpcodes
        \cup SbcOpcodes \cup CpOpcodes \cup Add16Opcodes

\* CPU::op, the arithmetic arms with a register operand, in a build with or
\* without overflow checks
CPU_op_arith(m, opcode, checks) ==
    IF opcode \in IncOpcodes THEN inc(m, (opcode - 4) \div 8, checks)
    ELSE IF opcode \in DecOpcodes THEN dec(m, (opcode - 5) \div 8, checks)
    ELSE IF opcode \in AddOpcodes THEN add(m, opcode - 128, FALSE, checks)
    ELSE IF opcode \in AdcOpcodes THEN add(m, opcode - 136, TRUE, checks)
    ELSE IF opcode \in SubOpcodes THEN sub(m, opcode - 144, FALSE, checks)
    ELSE IF opcode \in SbcOpcodes THEN sub(m, opcode - 152, TRUE, checks)
    ELSE IF opcode \in Add16Opcodes THEN add16(m, (opcode - 9) \div 16, checks)
    ELSE CPU_op(m, opcode)

\* push! that writes the register before moving the stack pointer
push_late(m, val, checks) ==
    LET sp == Arith(m.cpu.sp - 2, 65536, checks)
    IN  IF sp.ovf THEN [m EXCEPT !.res = Overflowed]
        ELSE [Written(m, Bus_write16(m.bus, m.cpu.sp, val))
                EXCEPT !.cpu.sp = sp.val, !.cpu.clk = @ + 12]

\* push! of the 16-bit value val: sp -= 2, 12 cycles, then the write at sp
push(m, val, checks) ==
    LET sp == Arith(m.cpu.sp - 2, 65536, checks)
        moved == [m EXCEPT !.cpu.sp = sp.val, !.cpu.clk = @ + 12]
    IN  IF sp.ovf THEN [m EXCEPT !.res = Overflowed]
        ELSE Written(moved, Bus_write16(m.bus, sp.val, val))

\* pop! into the register field reg: the 16 bits read at sp are assigned as
\* they are, then sp += 2, 8 cycles
pop(m, cond, reg, checks) ==
    LET r == Bus_read16(m.bus, m.cpu.sp)
        sp == Arith(m.cpu.sp + 2, 65536, checks)
        loaded == [m EXCEPT !.cpu[reg] = r.val]
    IN  IF ~cond THEN m
        ELSE IF r.res # Ok THEN [m EXCEPT !.res = r.res]
        ELSE IF sp.ovf THEN [loaded EXCEPT !.res = Overflowed]
        ELSE [loaded EXCEPT !.cpu.sp = sp.val, !.cpu.clk = @ + 8]

\* the machine after the push of a call!: pc is assigned unless the push
\* ended the instruction
Called(pushed, to) == IF pushed.res # Ok THEN pushed ELSE [pushed EXCEPT !.cpu.pc = to]

\* call!
call(m, cond, to, checks) == IF cond THEN Called(push(m, m.cpu.pc, checks), to) ELSE m

\* CALL cc,a16 / CALL a16;  RET cc / RET;  RETI;  RST n;  POP rr;  PUSH rr
CallOpcodes == {196, 212, 204, 220, 205}
RetOpcodes == {192, 208, 200, 216, 201}
RetiOpcode == 217
RstOpcodes == {199, 207, 215, 223, 231, 239, 247, 255}
PopOpcodes == {193, 209, 225, 241}
PushOpcodes == {197, 213, 229, 245}

FlowOpcodes ==
    CallOpcodes \cup RetOpcodes \cup {RetiOpcode} \cup RstOpcodes \cup PopOpcodes
        \cup PushOpcodes

\* the condition of a call or return: NZ, NC, Z, C or none
FlowCond(cpu, opcode) ==
    IF opcode \in {196, 192} THEN ~zf(cpu)
    ELSE IF opcode \in {212, 208} THEN ~cy(cpu)
    ELSE IF opcode \in {204, 200} THEN zf(cpu)
    ELSE IF opcode \in {220, 216} THEN cy(cpu)
    ELSE TRUE

\* the register pair a PUSH or POP opcode names
PairOf(opcode) ==
    IF opcode \in {193, 197} THEN "bc" ELSE IF opcode \in {209, 213} THEN "de"
    ELSE IF opcode \in {225, 229} THEN "hl" ELSE "af"

\* CPU::op, the call arms; f is the fetch of the 16-bit operand
op_call(f, opcode, checks) == call(f.m, FlowCond(f.m.cpu, opcode), f.val, checks)

\* the interrupt-enable flag set by RETI after its pop!
Reti(popped) == IF popped.res # Ok THEN popped ELSE [popped EXCEPT !.cpu.intr_enabled = TRUE]

\* CPU::op, the call, return, fixed-vector call, pop and push arms; the
\* other opcodes as in CPU_op_arith
CPU_op_flow(m, opcode, checks) ==
    IF opcode \in CallOpcodes THEN op_call(Fetch16(m), opcode, checks)
    ELSE IF opcode \in RetOpcodes THEN pop(m, FlowCond(m.cpu, opcode), "pc", checks)
    ELSE IF opcode = RetiOpcode THEN Reti(pop(m, TRUE, "pc", checks))
    ELSE IF opcode \in RstOpcodes THEN call(m, TRUE, opcode - 199, checks)
    ELSE IF opcode \in PopOpcodes THEN pop(m, TRUE, PairOf(opcode), checks)
    ELSE IF opcode \in PushOpcodes THEN push(m, m.cpu[PairOf(opcode)], checks)
    ELSE CPU_op_arith(m, opcode, checks)

\* rl! that always takes the old carry flag into bit 0
rl_carry(cpu, circular, v) ==
    LET out == v \div 128
        res == ((2 * v) % 256) + (IF cy(cpu) THEN 1 ELSE 0)
    IN  [val |-> res,
         cpu |-> set_cy(set_hc(set_sf(set_zf(cpu, res = 0), FALSE), FALSE), out # 0)]

\* rl!: cy = v >> 7; res = (v << 1) | (if circular { cy } else { old carry });
\* zero from res, subtract and half-carry cleared, carry from cy
rl(cpu, circular, v) ==
    LET out == v \div 128
        res == ((2 * v) % 256) + (IF circular THEN out ELSE IF cy(cpu) THEN 1 ELSE 0)
    IN  [val |-> res,
         cpu |-> set_cy(set_hc(set_sf(set_zf(cpu, res = 0), FALSE), FALSE), out # 0)]

\* rr!: cy = v & 1; res = (v >> 1) | ((if circular { cy } else { old carry }) << 7);
\* the same flags
rr(cpu, circular, v) ==
    LET out == v % 2
        res == (v \div 2) + 128 * (IF circular THEN out ELSE IF cy(cpu) THEN 1 ELSE 0)
    IN  [val |-> res,
         cpu |-> set_cy(set_hc(set_sf(set_zf(cpu, res = 0), FALSE), FALSE), out # 0)]

\* the macro call of a rotate arm: bits 3 and 4 of the opcode choose among
\* rl!(true), rr!(true), rl!(false), rr!(false)
Rotated(cpu, opcode, v) ==
    IF opcode \div 8 = 0 THEN rl(cpu, TRUE, v)
    ELSE IF opcode \div 8 = 1 THEN rr(cpu, TRUE, v)
    ELSE IF opcode \div 8 = 2 THEN rl(cpu, FALSE, v)
    ELSE rr(cpu, FALSE, v)

\* RLCA, RRCA, RLA, RRA
RotOpcodes == {7, 15, 23, 31}

\* CPU::op, the arms 0x07, 0x0F, 0x17, 0x1F: rotate A, then set_zf(false)
CPU_op_rot(m, opcode) ==
    LET x == Rotated(m.cpu, opcode, Hi(m.cpu.af))
    IN  [m EXCEPT !.cpu = set_zf(SetReg8(x.cpu, 7, x.val), FALSE)]

\* the rotate arms of op_cb: 0x00-0x1F
CbRotOpcodes == 0..31

\* the operand of an op_cb arm: a register, or the byte read at HL
CbOperand(m, r) ==
    IF r = 6 THEN Bus_read(m.bus, m.cpu.hl) ELSE [res |-> Ok, val |-> Reg8(m.cpu, r)]

\* the arm of op_cb applied to the operand o
CbRotate(m, cb, o) ==
    LET x == Rotated(m.cpu, cb, o.val)
    IN  IF o.res # Ok THEN [m EXCEPT !.res = o.res]
        ELSE IF cb % 8 = 6
        THEN OpWrite([m EXCEPT !.cpu = x.cpu], m.cpu.hl, x.val)
        ELSE [m EXCEPT !.cpu = SetReg8(x.cpu, cb % 8, x.val)]

\* 0x20-0x3F, which have no arm in op_cb and fall to `_ => unimplemented!()`
CbMissingOpcodes == 32..63

\* CPU::op_cb, the arms 0x00-0x1F and the catch-all arm
CPU_op_cb(m, cb) ==
    IF cb \in CbRotOpcodes THEN CbRotate(m, cb, CbOperand(m, cb % 8))
    ELSE IF cb \in CbMissingOpcodes THEN op_unimplemented(m)
    ELSE [m EXCEPT !.res = [kind |-> "NotModelled", what |-> "op_cb above 0x3F"]]

\* the 0xCB arm of CPU::op with the secondary opcode already fetched
op_prefixed(f) == IF f.m.res # Ok THEN f.m ELSE CPU_op_cb(f.m, f.val)

\* CPU::op, with its 0xCB arm: fetch the secondary opcode, then op_cb
CPU_op_any(m, opcode) ==
    IF opcode = 203 THEN op_prefixed(Fetch8(m)) ELSE CPU_op(m, opcode)

\* the opcode fetched by CPU::exec is executed unless the fetch failed
ExecFetched(f) == IF f.m.res # Ok THEN f.m ELSE CPU_op(f.m, f.val)

\* CPU::exec: fetch one opcode and execute it
CPU_exec(m) == ExecFetched(Fetch8(m))

\* CPU::exec in a build with or without overflow checks, with the call,
\* return and stack arms
ExecFetchedFlow(f, checks) ==
    IF f.m.res # Ok THEN f.m ELSE CPU_op_flow(f.m, f.val, checks)

(***************************************************************************)
(* GameBoy (gameboy.rs).                                                   *)
(***************************************************************************)
CPU_CLOCK == 4194304
HSYNC_CLOCK == 9198
CYCLES_PER_HSYNC == CPU_CLOCK \div HSYNC_CLOCK
SCANLINES == 154
\* cycles added by a step while the CPU is halted
HALT_QUANTUM == 4

\* the picture unit after being handed `elapsed` cycles, one tick per 4
RECURSIVE PPU_tick_elapsed(_, _)
PPU_tick_elapsed(ppu, elapsed) ==
    IF elapsed < TICK_CYCLES THEN ppu
    ELSE PPU_tick_elapsed(PPU_tick(ppu), elapsed - TICK_CYCLES)

\* what a step does to the CPU and the bus before the peripherals are ticked
StepCpu(m) ==
    IF ~m.cpu.halted THEN CPU_exec(m)
    ELSE [m EXCEPT !.cpu.clk = @ + HALT_QUANTUM]

\* the peripherals ticked by a step, given the cycles that elapsed
StepTick(b, elapsed) == [b EXCEPT !.ppu = PPU_tick_elapsed(@, elapsed)]

\* the end of GameBoy::step, x being the machine after the CPU's part; a
\* fault or panic inside the instruction ends the step
StepEnd(m, x) ==
    IF x.res # Ok THEN x
    ELSE [x EXCEPT !.bus = StepTick(x.bus, x.cpu.clk - m.cpu.clk)]

\* GameBoy::step
GameBoy_step(m) == StepEnd(m, StepCpu(m))

\* until_clk with a scanline taken to be 455 cycles
RunUntil_short(clk) == clk + 455 * SCANLINES

\* until_clk of GameBoy::run_for_vblank
RunUntil(clk) == clk + CYCLES_PER_HSYNC * SCANLINES

(***************************************************************************)
(* State.                                                                  *)
(*   bus    the Bus with its memories and peripherals                      *)
(*   cpu    the CPU registers                                              *)
(*   drv    where the driver is: idle, or inside run_for_vblank            *)
(*   phase  "new" (constructed), "loaded", "failed" (load returned an      *)
(*          error), "faulted" (a step met a bus fault), "panicked"         *)
(*   ret    what the last operation returned                               *)
(*   rom    the image given to load_rom                                    *)
(*   hist   history: what has happened so far                              *)
(***************************************************************************)
VARIABLES bus, cpu, drv, phase, ret, rom, hist

vars == << bus, cpu, drv, phase, ret, rom, hist >>

DrvIdle == [pc |-> "idle", start_clk |-> 0, until_clk |-> 0, last |-> 0, returned |-> FALSE]

\* history kept for stating properties: boot_writes counts the completed
\* writes to 0xFF50 (saturating at 2); latched tells whether some tick has
\* set the v-blank flag, since_latch counts the ticks that advanced the
\* counter since the last one that did (or since construction); off_tick
\* tells whether the last operation was a tick with the display disabled;
\* apu_ticks and apu_writes count the APU ticks and the sound register
\* writes, last_write is the address and value of the sound register write
\* if the last operation was one (<< 0, 0 >> otherwise); pushes counts the
\* samples the mixer has offered to the queue
\* alu is the arithmetic opcode executed last and the build it ran in;
\* flow counts the instructions SpecFlow has executed and keeps the opcode of
\* the last one, whether it was a call that was taken, and the stack pointer
\* and the address of the following instruction at that point;
\* rot counts the rotates SpecRot has executed and keeps the opcode of the
\* last one, whether it came after the 0xCB prefix, and the operand the
\* first one started from;
\* tone counts the APU ticks of SpecTone and keeps, for each tone channel,
\* the numbers of the last two ticks at which its timer was reloaded (0: none);
\* mem counts the accesses SpecMem has made to a memory block and keeps the
\* last one: the block, read or write, width in bytes, address and value;
\* ld keeps the opcode SpecLoad has executed and the byte that followed it;
\* q keeps the samples the mixer offered to a sample queue that was not full,
\* the samples the consumer has popped, both in order, and the number of
\* times the consumer has called pop
Hist0 ==
    [boot_writes |-> 0, latched |-> FALSE, since_latch |-> 0, off_tick |-> FALSE,
     apu_ticks |-> 0, apu_writes |-> 0, last_write |-> << 0, 0 >>, pushes |-> 0,
     alu |-> [opcode |-> 0, checks |-> FALSE],
     flow |-> [steps |-> 0, opcode |-> 0, called |-> FALSE, sp |-> 0, next |-> 0],
     rot |-> [steps |-> 0, opcode |-> 0, prefixed |-> FALSE, orig |-> 0],
     tone |-> [ticks |-> 0, prev |-> << 0, 0 >>, last |-> << 0, 0 >>],
     mem |-> [ops |-> 0, block |-> "", write |-> FALSE, width |-> 0, addr |-> 0, val |-> 0],
     ld |-> [opcode |-> 0, d8 |-> 0],
     q |-> [accepted |-> << >>, received |-> << >>, pops |-> 0]]

PhaseAfter(res, ok) ==
    IF res = Ok THEN ok
    ELSE IF res.kind = "Panic" THEN "panicked"
    ELSE "failed"

(***************************************************************************)
(* SpecBus: a bus is constructed, a cartridge image is loaded, and the     *)
(* bus is then read and written at addresses of every kind.                *)
(***************************************************************************)
BusImages ==
    {[len |-> l, type |-> 0, seed |-> 5, code |-> << >>] : l \in {328, 32768, 49168}}
    \cup {[len |-> 32768, type |-> ty, seed |-> 5, code |-> << >>] : ty \in {3, 4}}

\* 0x0000 0x2000 0x3FFF 0x4000 0x6000 0xC000 0xE000 0xFEA0 0xFF03 0xFF4D
\* 0xFF50
WriteAddrs ==
    {0, 8192, 16383, 16384, 24576, 49152, 57344, 65184, 65283, 65357, 65360}

BusVals(addr) ==
    IF addr = 8192 THEN (0..MaxBankVal) \cup {255}
    ELSE {165}

\* 0x0000 0x4000 0xC000 0xFEA0 0xFF4C
ReadAddrs == {0, 16384, 49152, 65184, 65356}

InitBus ==
    /\ bus = Bus_default
    /\ cpu = CPU_new
    /\ drv = DrvIdle
    /\ phase = "new"
    /\ ret = Ok
    /\ rom = NoImage
    /\ hist = Hist0

LoadRom(img) ==
    /\ phase = "new"
    /\ \E r \in {Bus_load_rom(bus, img)} :
           /\ bus' = r.bus
           /\ ret' = r.res
           /\ phase' = PhaseAfter(r.res, "loaded")
    /\ rom' = img
    /\ UNCHANGED << cpu, drv, hist >>

BusWrite(addr, val) ==
    /\ phase = "loaded"
    /\ \E w \in {Bus_write(bus, addr, val)} :
           /\ bus' = w.bus
           /\ ret' = w.res
           /\ phase' = IF w.res # Ok /\ w.res.kind = "Panic" THEN "panicked" ELSE phase
           /\ hist' = [hist EXCEPT !.boot_writes =
                          IF addr = 65360 /\ w.res = Ok /\ @ < 2 THEN @ + 1 ELSE @]
    /\ UNCHANGED << cpu, drv, rom >>

BusRead(addr) ==
    /\ phase = "loaded"
    /\ \E r \in {Bus_read(bus, addr)} :
           /\ ret' = IF r.res = Ok THEN [kind |-> "Val", val |-> r.val] ELSE r.res
           /\ phase' = IF r.res # Ok /\ r.res.kind = "Panic" THEN "panicked" ELSE phase
    /\ UNCHANGED << bus, cpu, drv, rom, hist >>

NextBus ==
    \/ \E img \in BusImages : LoadRom(img)
    \/ \E addr \in WriteAddrs : \E val \in BusVals(addr) : BusWrite(addr, val)
    \/ \E addr \in ReadAddrs : BusRead(addr)

SpecBus == InitBus /\ [][NextBus]_vars

(***************************************************************************)
(* SpecOam: a cartridge is loaded into a fresh bus, then bytes of the      *)
(* sprite table (0xFE00-0xFE9F) are written and read through the bus, in   *)
(* any order.                                                              *)
(***************************************************************************)
\* offsets into the sprite table: the four bytes of sprite 0, the first two
\* of sprite 1 and the last byte of sprite 39
OamProbes == {0, 1, 2, 3, 4, 5, 159}

OamVals == {0, 90, 165}

NextOam ==
    \/ LoadRom([len |-> 32768, type |-> 0, seed |-> 5, code |-> << >>])
    \/ \E a \in OamProbes : \E val \in OamVals : BusWrite(65024 + a, val)
    \/ \E a \in OamProbes : BusRead(65024 + a)

SpecOam == InitBus /\ [][NextOam]_vars

(***************************************************************************)
(* SpecPPU: the picture unit of a freshly constructed bus is ticked, its   *)
(* control and status registers are written through the bus, its pending   *)
(* interrupt is collected and a frame is rasterized, in any order.         *)
(***************************************************************************)
\* the number of PPU::tick calls in one frame
FrameTicks == FRAME_CYCLES \div TICK_CYCLES

\* 0xFF40 (LCD control: 0x11 display off, 0x91 display on), 0xFF41 (LCD
\* status, with both mode bits set) and 0xFF44 (scanline)
PpuWrites == {<< 65344, 17 >>, << 65344, 145 >>, << 65345, 3 >>, << 65348, 99 >>}

\* whether a tick of this unit sets the v-blank flag
LatchedBy(ppu) == PPU_tick([ppu EXCEPT !.vblank_irq_pending = FALSE]).vblank_irq_pending

InitPPU ==
    /\ bus = Bus_default
    /\ cpu = CPU_new
    /\ drv = DrvIdle
    /\ phase = "new"
    /\ ret = Ok
    /\ rom = NoImage
    /\ hist = Hist0

PpuTick ==
    /\ \E p \in {PPU_tick(bus.ppu)} :
           /\ bus' = [bus EXCEPT !.ppu = p]
           /\ hist' = IF ~Bit(bus.ppu.lcdc_reg, 7) THEN [hist EXCEPT !.off_tick = TRUE]
                      ELSE IF LatchedBy(bus.ppu)
                           THEN [hist EXCEPT !.latched = TRUE, !.since_latch = 0,
                                             !.off_tick = FALSE]
                      ELSE [hist EXCEPT !.since_latch = IF @ <= FrameTicks THEN @ + 1 ELSE @,
                                        !.off_tick = FALSE]
    /\ ret' = Ok
    /\ UNCHANGED << cpu, drv, phase, rom >>

PpuWrite(addr, val) ==
    /\ \E w \in {Bus_write(bus, addr, val)} :
           /\ bus' = w.bus
           /\ ret' = w.res
    /\ hist' = [hist EXCEPT !.off_tick = FALSE]
    /\ UNCHANGED << cpu, drv, phase, rom >>

PpuIrq ==
    /\ \E r \in {PPU_get_and_clear_irq(bus.ppu)} :
           /\ bus' = [bus EXCEPT !.ppu = r.ppu]
           /\ ret' = Ok
    /\ hist' = [hist EXCEPT !.off_tick = FALSE]
    /\ UNCHANGED << cpu, drv, phase, rom >>

NextPPU ==
    \/ PpuTick
    \/ \E w \in PpuWrites : PpuWrite(w[1], w[2])
    \/ PpuIrq

SpecPPU == InitPPU /\ [][NextPPU]_vars

(***************************************************************************)
(* SpecGB: a machine at the point where the boot program has handed over   *)
(* to the cartridge (overlay disabled, display on, pc at the entry point   *)
(* 0x0100) runs a small cartridge program.  The driver calls step, or      *)
(* run_for_vblank, whose loop is followed one iteration at a time.         *)
(***************************************************************************)
\* the programs placed at the entry point:
\*   HALT / NOP; STOP / JR -2 / NOP; JP 0x0100 /
\*   CP A; JR NZ,+5; JR Z,-5 / LD A,0x11; LDH (0x40),A; HALT /
\*   NOP followed by each opcode CPU::op rejects
Programs ==
    {<< 118 >>, << 0, 16 >>, << 24, 254 >>, << 0, 195, 0, 1 >>,
     << 191, 32, 5, 40, 251 >>, << 62, 17, 224, 64, 118 >>}
        \cup {<< 0, o >> : o \in InvalidOpcodes}

GBImages == {[len |-> 32768, type |-> 0, seed |-> 5, code |-> c] : c \in Programs}

\* the bus as the boot program leaves it: the image loaded, 0x91 written to
\* the LCD control register, the overlay disabled
EntryBus(img) ==
    LET loaded == Bus_load_rom(Bus_default, img).bus
        lcd_on == Bus_write(loaded, 65344, 145).bus
    IN  Bus_write(lcd_on, 65360, 1).bus

\* the registers as the boot program leaves them
EntryCpu == [CPU_new EXCEPT !.pc = ENTRY_POINT, !.sp = 65534, !.af = 432]

InitGB ==
    /\ rom \in GBImages
    /\ bus = EntryBus(rom)
    /\ cpu = EntryCpu
    /\ drv = DrvIdle
    /\ phase = "loaded"
    /\ ret = Ok
    /\ hist = [Hist0 EXCEPT !.boot_writes = 1]

\* one call of GameBoy::step and what it leaves
Stepped(d) ==
    /\ \E x \in {GameBoy_step([cpu |-> cpu, bus |-> bus, res |-> Ok])} :
           /\ cpu' = x.cpu
           /\ bus' = x.bus
           /\ ret' = x.res
           /\ phase' = IF x.res = Ok THEN phase
                       ELSE IF x.res.kind = "Panic" THEN "panicked" ELSE "faulted"
           /\ drv' = [d EXCEPT !.last = x.cpu.clk - cpu.clk]
    /\ UNCHANGED << rom, hist >>

\* the driver calls step
StepOnce ==
    /\ phase = "loaded"
    /\ drv.pc = "idle"
    /\ ~drv.returned
    /\ cpu.clk < MaxStartClk
    /\ Stepped(drv)

\* run_for_vblank is entered: until_clk is computed
RunStart ==
    /\ phase = "loaded"
    /\ drv.pc = "idle"
    /\ ~drv.returned
    /\ drv' = [pc |-> "run", start_clk |-> cpu.clk, until_clk |-> RunUntil(cpu.clk),
               last |-> 0, returned |-> FALSE]
    /\ ret' = Ok
    /\ UNCHANGED << bus, cpu, phase, rom, hist >>

\* one iteration of the loop of run_for_vblank
RunStep ==
    /\ phase = "loaded"
    /\ drv.pc = "run"
    /\ cpu.clk < drv.until_clk
    /\ Stepped(drv)

\* the loop condition fails: run_for_vblank returns
RunReturn ==
    /\ phase = "loaded"
    /\ drv.pc = "run"
    /\ ~(cpu.clk < drv.until_clk)
    /\ drv' = [drv EXCEPT !.pc = "idle", !.returned = TRUE]
    /\ ret' = Ok
    /\ UNCHANGED << bus, cpu, phase, rom, hist >>

NextGB ==
    \/ StepOnce
    \/ RunStart
    \/ RunStep
    \/ RunReturn

SpecGB == InitGB /\ [][NextGB]_vars

(***************************************************************************)
(* SpecAPU: the sound unit of a freshly constructed bus is ticked up to    *)
(* and past the first 64 Hz clock of its frame sequencer (which is also a  *)
(* 256 Hz clock), and a program writes the tone channels' registers        *)
(* through the bus around that clock.                                      *)
(***************************************************************************)
\* the number of APU::tick calls up to the first 64 Hz clock
EnvTicks == CLK_64_RELOAD \div 4

\* NR11 (0xFF11): duty 2 with length 1, 2;  NR12 (0xFF12): volume 0 down
\* period 1, volume 5 down period 3, volume 15 up period 1;  NR14 (0xFF14):
\* trigger, trigger with length enable, length enable alone;  NR22 (0xFF17):
\* volume 0 up period 3;  NR24 (0xFF19): trigger with length enable.  The
\* values for NRx4 keep the frequency bits at their reset value.
ApuWrites ==
    {<< 65297, 129 >>, << 65297, 130 >>,
     << 65298, 1 >>, << 65298, 83 >>, << 65298, 249 >>,
     << 65300, 135 >>, << 65300, 199 >>, << 65300, 71 >>,
     << 65303, 11 >>, << 65305, 199 >>}

InitAPU ==
    /\ bus = Bus_default
    /\ cpu = CPU_new
    /\ drv = DrvIdle
    /\ phase = "new"
    /\ ret = Ok
    /\ rom = NoImage
    /\ hist = Hist0

\* the emulation thread calls APU::tick
ApuTick ==
    /\ hist.apu_ticks < EnvTicks + ApuTail
    /\ \E a \in {APU_tick(bus.apu)} : bus' = [bus EXCEPT !.apu = a]
    /\ hist' = [hist EXCEPT !.apu_ticks = @ + 1, !.last_write = << 0, 0 >>]
    /\ ret' = Ok
    /\ UNCHANGED << cpu, drv, phase, rom >>

\* the ticks at which the program writes
InWriteWindow == hist.apu_ticks + ApuLead >= EnvTicks

\* the program writes a sound register
ApuWrite(addr, val) ==
    /\ InWriteWindow
    /\ hist.apu_writes < MaxApuWrites
    /\ \E w \in {Bus_write(bus, addr, val)} :
           /\ bus' = w.bus
           /\ ret' = w.res
    /\ hist' = [hist EXCEPT !.apu_writes = @ + 1, !.last_write = << addr, val >>]
    /\ UNCHANGED << cpu, drv, phase, rom >>

NextAPU ==
    \/ ApuTick
    \/ \E w \in ApuWrites : ApuWrite(w[1], w[2])

SpecAPU == InitAPU /\ [][NextAPU]_vars

(***************************************************************************)
(* SpecMixer: a sound unit constructed for a sample rate is set up by a    *)
(* program (power switch, trigger of channel 1) and then ticked by the     *)
(* emulation thread; nothing consumes the sample queue.                    *)
(***************************************************************************)
\* sample rates with a sample period of 4 and of 2 CPU cycles
SampleRates == {1048576, 2097152}

\* NR52 (0xFF26): power off;  NR14 (0xFF14): trigger
MixerWrites == {<< 65318, 0 >>, << 65300, 135 >>}

InitMixer ==
    /\ \E rate \in SampleRates : bus = [Bus_default EXCEPT !.apu = APU_new(rate)]
    /\ cpu = CPU_new
    /\ drv = DrvIdle
    /\ phase = "new"
    /\ ret = Ok
    /\ rom = NoImage
    /\ hist = Hist0

\* the sample Mixer::tick computes in the tick that leaves the unit as a
Offered(a) ==
    Mixer_sample(a, ToneChannel_get_channel_out(a.ch1), ToneChannel_get_channel_out(a.ch2))

\* the emulation thread calls APU::tick
MixerTick ==
    /\ hist.pushes < SAMPLE_CAPACITY + MaxOverflow
    /\ \E a \in {APU_tick(bus.apu)} : bus' = [bus EXCEPT !.apu = a]
    /\ hist' = [hist EXCEPT !.apu_ticks = @ + 1,
                            !.last_write = << 0, 0 >>,
                            !.pushes = IF Mixer_due(bus.apu) THEN @ + 1 ELSE @,
                            !.q.accepted =
                                IF Mixer_due(bus.apu)
                                   /\ Len(bus.apu.sample_channel) < SAMPLE_CAPACITY
                                THEN Append(@, Offered(APU_tick(bus.apu)))
                                ELSE @]
    /\ ret' = Ok
    /\ UNCHANGED << cpu, drv, phase, rom >>

\* the program sets the unit up before the first tick
MixerWrite(addr, val) ==
    /\ hist.apu_ticks = 0
    /\ hist.apu_writes < MaxApuWrites
    /\ \E w \in {Bus_write(bus, addr, val)} :
           /\ bus' = w.bus
           /\ ret' = w.res
    /\ hist' = [hist EXCEPT !.apu_writes = @ + 1, !.last_write = << addr, val >>]
    /\ UNCHANGED << cpu, drv, phase, rom >>

NextMixer ==
    \/ MixerTick
    \/ \E w \in MixerWrites : MixerWrite(w[1], w[2])

SpecMixer == InitMixer /\ [][NextMixer]_vars

(***************************************************************************)
(* SpecQueue: channel 1 of a new sound unit is given the frequency 2047    *)
(* and triggered; the emulation thread then ticks the unit as in           *)
(* SpecMixer, and a consumer holding the handle of the sample queue pops   *)
(* from it, at most MaxPops times, at any moment between two ticks.        *)
(***************************************************************************)
\* NR13 (0xFF13) = 0xFF, NR14 (0xFF14) = 0x87, one sample every tick
InitQueue ==
    /\ bus = Bus_write(Bus_write([Bus_default EXCEPT !.apu = APU_new(1048576)],
                                 65299, 255).bus,
                       65300, 135).bus
    /\ cpu = CPU_new
    /\ drv = DrvIdle
    /\ phase = "new"
    /\ ret = Ok
    /\ rom = NoImage
    /\ hist = Hist0

\* the consumer thread calls pop on the sample queue
QueuePop ==
    /\ hist.q.pops < MaxPops
    /\ \E p \in {Queue_pop(bus.apu.sample_channel)} :
           /\ bus' = [bus EXCEPT !.apu.sample_channel = p.q]
           /\ hist' = [hist EXCEPT !.q.pops = @ + 1,
                                   !.q.received = IF p.some THEN Append(@, p.val) ELSE @]
    /\ UNCHANGED << cpu, drv, phase, ret, rom >>

NextQueue ==
    \/ MixerTick
    \/ QueuePop

SpecQueue == InitQueue /\ [][NextQueue]_vars

(***************************************************************************)
(* Properties of the bus (SpecBus).                                        *)
(***************************************************************************)
\* C1: in every state reached after load_rom and any bus writes, the
\* selected ROM bank index is at least 1 and at most the number of loaded
\* banks minus 1, so that a read of 0x4000-0x7FFF finds a bank.
C1_BankIndexInRange ==
    phase = "loaded" =>
        /\ bus.rom_nn >= 1
        /\ bus.rom_nn <= Len(bus.rom_banks) - 1
        /\ Bus_read(bus, 16384).res = Ok

\* the selected bank of a two-bank image after 5 was written to 0x2000: no
\* such bank is loaded
C1_BankBeyondImage ==
    /\ phase = "loaded"
    /\ rom.len = 32768
    /\ bus.rom_nn = 5
    /\ Len(bus.rom_banks) = 2
    /\ Bus_read(bus, 16384).res = Panic("index out of bounds")

\* addresses of the bank-select range: 0x2000 0x2ABC 0x3FFF
SelectAddrs == {8192, 10940, 16383}

\* C2: a write of v to 0x2000-0x3FFF selects bank 1 when v = 0 and bank v
\* when 1 <= v <= 31; for every other v the write fails with the invalid
\* bank operation fault and the selected bank is left as it was.
C2_RomSelectWrite ==
    phase = "loaded" =>
        \A a \in SelectAddrs : \A v \in Byte :
            LET w == Bus_write(bus, a, v)
            IN  IF v = 0 THEN w.res = Ok /\ w.bus.rom_nn = 1
                ELSE IF v >= 1 /\ v <= 31 THEN w.res = Ok /\ w.bus.rom_nn = v
                ELSE /\ w.res = [kind |-> "InvalidMbcOp", op |-> "RomBank", val |-> v]
                     /\ w.bus.rom_nn = bus.rom_nn

\* bank 5 was selected and a later write of 32 was refused
C2_RefusedAfterSelect ==
    /\ phase = "loaded"
    /\ bus.rom_nn = 5
    /\ ret = InvalidMbcOp("RomBank", 32)

\* the bytes a bus read returns for 0x0000-0x00FF
LowBytes(b) == [i \in 0..(BOOT_LEN - 1) |-> Bus_read(b, i)]

\* C3: after load_rom, reads of 0x0000-0x00FF return the boot overlay; once
\* 0xFF50 has been written they return the image's own first 256 bytes,
\* whatever else was written, and a further write to 0xFF50 changes nothing.
C3_BootOverlay ==
    phase = "loaded" =>
        /\ LowBytes(bus) =
               [i \in 0..(BOOT_LEN - 1) |->
                   [res |-> Ok,
                    val |-> IF hist.boot_writes > 0 THEN ImageByte(rom, i)
                            ELSE BOOT_ROM[i + 1]]]
        /\ hist.boot_writes > 0 =>
               Bus_write(bus, 65360, 1) = [res |-> Ok, bus |-> bus]

\* 0xFF50 was written twice, bank 5 was selected, and address 0 reads the
\* image's byte, which is not the overlay's
C3_RestoredTwice ==
    /\ phase = "loaded"
    /\ hist.boot_writes = 2
    /\ bus.rom_nn = 5
    /\ Bus_read(bus, 0).val = ImageByte(rom, 0)
    /\ ImageByte(rom, 0) # BOOT_ROM[1]

(***************************************************************************)
(* Properties of the picture unit (SpecPPU).                               *)
(***************************************************************************)
\* a step that is a tick with the display enabled / disabled
EnabledTick == PpuTick /\ Bit(bus.ppu.lcdc_reg, 7)

DisabledTick == PpuTick /\ ~Bit(bus.ppu.lcdc_reg, 7)

\* the mode of a counter value: scanline c / 456, position c % 456
ModeOfCounter(c) ==
    IF c \div 456 <= 143
    THEN (IF c % 456 <= 79 THEN 2 ELSE IF c % 456 <= 253 THEN 3 ELSE 0)
    ELSE 1

\* C4: with the display enabled, after every tick the low two bits of the
\* status register are the mode of the counter: on scanlines 0-143 mode 2
\* for positions 0-79, 3 for 80-253, 0 for 254-455; on scanlines 144-153
\* mode 1.
C4_ModeFollowsCounter ==
    [][EnabledTick =>
          /\ bus'.ppu.tstate \div 456 <= 153
          /\ bus'.ppu.stat_reg % 4 = ModeOfCounter(bus'.ppu.tstate)]_vars

\* a tick has moved the counter to scanline 150, position 252, after the
\* mode bits had been in v-blank, and the mode bits read 1
C4_InVBlank ==
    /\ Bit(bus.ppu.lcdc_reg, 7)
    /\ bus.ppu.tstate = 150 * 456 + 252
    /\ bus.ppu.stat_reg % 4 = 1
    /\ ~hist.off_tick

\* C5: with the display enabled, the ticks that set the v-blank flag are
\* exactly those on which the counter becomes 65664 (scanline 144,
\* position 0), and every 70224 cycles of ticking hold exactly one of them:
\* two successive ones are 17556 ticks apart and no 17556 ticks pass
\* without one.
C5_OneLatchPerFrame ==
    [][EnabledTick =>
          /\ LatchedBy(bus.ppu) <=> bus'.ppu.tstate = 65664
          /\ bus'.ppu.vblank_irq_pending = (bus.ppu.vblank_irq_pending \/ LatchedBy(bus.ppu))
          /\ (LatchedBy(bus.ppu) /\ hist.latched) => (hist.since_latch + 1) * 4 = 70224
          /\ hist'.since_latch * 4 < 70224]_vars

\* the flag has been set once and a whole frame but one tick has been
\* ticked since: the next tick is the second one to set it
C5_FrameAfterLatch ==
    /\ hist.latched
    /\ hist.since_latch = 17555
    /\ bus.ppu.tstate = 65660
    /\ Bit(bus.ppu.lcdc_reg, 7)
    /\ LatchedBy(bus.ppu)

\* sampled positions of the frame buffer and bytes found there beforehand
RasterSample == {0, 1, 2, 3, 640, 92159, 92160}

OldBytes == {0, 18}

\* C6: while bit 7 of the control register is clear a tick changes nothing
\* (counter, scanline register, mode bits, both pending flags), and
\* rasterize fills the buffer with 0xFF.
C6_DisabledDisplayFrozen ==
    [][DisabledTick =>
          /\ bus'.ppu.tstate = bus.ppu.tstate
          /\ bus'.ppu.ly_reg = bus.ppu.ly_reg
          /\ bus'.ppu.stat_reg % 4 = bus.ppu.stat_reg % 4
          /\ bus'.ppu.vblank_irq_pending = bus.ppu.vblank_irq_pending
          /\ bus'.ppu.stat_irq_pending = bus.ppu.stat_irq_pending
          /\ bus' = bus
          /\ \A idx \in RasterSample : \A old \in OldBytes :
                 PPU_rasterize(bus'.ppu, idx, old) = 255]_vars

\* the display was switched off in mid-frame with the v-blank flag pending,
\* and a tick has since been made
C6_TickedWhileOff ==
    /\ hist.off_tick
    /\ ~Bit(bus.ppu.lcdc_reg, 7)
    /\ bus.ppu.tstate = 65664 + 8
    /\ bus.ppu.ly_reg = 144
    /\ bus.ppu.stat_reg % 4 = 1
    /\ bus.ppu.vblank_irq_pending

(***************************************************************************)
(* Properties of the machine (SpecGB).                                     *)
(***************************************************************************)
\* a step that is one call of GameBoy::step
IsStep == StepOnce \/ RunStep

\* the opcode at the program counter
OpcodeAtPc == Bus_read(bus, cpu.pc).val

\* C7: each step executes one instruction (or one halted quantum) and then
\* advances both the picture unit and the sound unit by the cycles the CPU
\* cycle counter advanced: the picture unit's counter and the sound unit's
\* three frame-sequencer clocks all move by that amount.
C7_PeripheralsFollowClock ==
    [][(IsStep /\ phase' = "loaded") =>
          LET elapsed == cpu'.clk - cpu.clk
          IN  /\ elapsed > 0
              /\ bus'.ppu.tstate = (bus.ppu.tstate + elapsed) % 70224
              /\ (bus.apu.clk_64 - bus'.apu.clk_64) % 65536 = elapsed % 65536
              /\ (bus.apu.clk_128 - bus'.apu.clk_128) % 32768 = elapsed % 32768
              /\ (bus.apu.clk_256 - bus'.apu.clk_256) % 16384 = elapsed % 16384]_vars

\* a step has executed NOP: 4 cycles on the CPU clock and on the picture
\* unit's counter, none on the sound unit's clocks
C7_SoundLeftBehind ==
    /\ rom.code = << 0, 195, 0, 1 >>
    /\ cpu.clk = 4
    /\ cpu.pc = 257
    /\ bus.ppu.tstate = 4
    /\ bus.apu.clk_64 = 65536
    /\ bus.apu.clk_128 = 32768
    /\ bus.apu.clk_256 = 16384

\* C8: run_for_vblank terminates, every step of its loop increasing the
\* cycle counter (also while halted) towards the bound fixed at entry, and
\* when it returns the cycle counter has advanced by at least 70224 cycles
\* and by less than 70224 plus the cost of the last step.
C8_RunsOneFrame ==
    [][/\ RunStep => (phase' = "panicked" \/ cpu'.clk > cpu.clk)
       /\ RunReturn =>
              /\ cpu.clk - drv.start_clk >= 70224
              /\ cpu.clk - drv.start_clk < 70224 + drv.last]_vars

\* run_for_vblank, entered after the NOP of the NOP; JP loop, has returned
\* 12 cycles past the frame, its last step having been a 16-cycle JP
C8_ReturnedPastFrame ==
    /\ drv.returned
    /\ rom.code = << 0, 195, 0, 1 >>
    /\ drv.start_clk = 4
    /\ cpu.clk - drv.start_clk = 70236
    /\ drv.last = 16

\* C9: executing opcode 0x76 or 0x10 sets the halted flag; from then on
\* every step adds 4 to the cycle counter and changes nothing else in the
\* CPU (pc, sp, registers, flags, halted) nor in memory.
C9_HaltFreezesCpu ==
    [][IsStep =>
          /\ (~cpu.halted /\ OpcodeAtPc \in {118, 16}) =>
                 /\ cpu'.halted
                 /\ phase' = "loaded"
          /\ cpu.halted =>
                 /\ cpu' = [cpu EXCEPT !.clk = @ + 4]
                 /\ [bus' EXCEPT !.ppu = bus.ppu] = bus
                 /\ phase' = "loaded"]_vars

\* opcode 0x10 at 0x0101 was executed and two steps were made since
C9_HaltedTwoQuanta ==
    /\ rom.code = << 0, 16 >>
    /\ cpu.halted
    /\ cpu.pc = 258
    /\ cpu.clk = 16

\* C10: executing an opcode of {0xD3, 0xDB, 0xDD, 0xE3, 0xE4, 0xEB, 0xEC,
\* 0xED, 0xF4, 0xFC, 0xFD} ends in a fault that names the opcode and the
\* program counter, and nothing executes after it.
C10_InvalidOpcodeFatal ==
    [][/\ phase # "panicked"
       /\ (IsStep /\ ~cpu.halted
             /\ OpcodeAtPc \in {211, 219, 221, 227, 228, 235, 236, 237, 244, 252, 253}) =>
              /\ phase' = "panicked"
              /\ ret' = [kind |-> "Panic", what |-> "unexpected opcode",
                         pc |-> (cpu.pc + 1) % 65536, opcode |-> OpcodeAtPc]]_vars

\* opcode 0xFD at 0x0101 was executed inside run_for_vblank
C10_PanickedOnFD ==
    /\ phase = "panicked"
    /\ drv.pc = "run"
    /\ ret.kind = "Panic"
    /\ ret.opcode = 253
    /\ ret.pc = 258
    /\ cpu.clk = 8

(***************************************************************************)
(* SpecALU: one arithmetic instruction with a register operand is executed *)
(* on a register file drawn from AluBytes, AluFlags and AluWords, in a     *)
(* build with or without overflow checks.                                  *)
(***************************************************************************)
\* 0x00 0x05 0x08 0x0F 0x10 0x80 0xFF
AluBytes == {0, 5, 8, 15, 16, 128, 255}

\* no flag, carry, all four flags
AluFlags == {0, 16, 240}

\* 0x0000 0x0008 0x0800 0x0FFF 0x80FF 0xFF01 0xFFFF
AluWords == {0, 8, 2048, 4095, 33023, 65281, 65535}

InitALU ==
    /\ bus = Bus_default
    /\ \E a \in AluBytes : \E f \in AluFlags : \E b \in AluWords : \E h \in AluWords :
           cpu = [CPU_new EXCEPT !.af = a * 256 + f, !.bc = b, !.de = 3841, !.hl = h,
                                 !.sp = 65534]
    /\ drv = DrvIdle
    /\ phase = "new"
    /\ ret = Ok
    /\ rom = NoImage
    /\ hist = Hist0

\* CPU::op executes the arithmetic opcode
ArithOp(opcode, checks) ==
    /\ phase = "new"
    /\ \E x \in {CPU_op_arith([cpu |-> cpu, bus |-> bus, res |-> Ok], opcode, checks)} :
           /\ cpu' = x.cpu
           /\ bus' = x.bus
           /\ ret' = x.res
           /\ phase' = PhaseAfter(x.res, "done")
    /\ hist' = [hist EXCEPT !.alu = [opcode |-> opcode, checks |-> checks]]
    /\ UNCHANGED << drv, rom >>

NextALU == \E opcode \in ArithOpcodes : \E checks \in BOOLEAN : ArithOp(opcode, checks)

SpecALU == InitALU /\ [][NextALU]_vars

(***************************************************************************)
(* SpecFlow: a machine at the cartridge entry point (as in SpecGB) executes *)
(* a short program of calls, returns, jumps, pushes and pops, one          *)
(* CPU::exec at a time, in a build with or without overflow checks.        *)
(***************************************************************************)
\* CALL cc,0x0104 / HALT / RET cc or RETI / HALT;
\* PUSH rr / POP rr' / HALT;  JP cc,0x0104 / HALT / HALT;  JR cc,+1 / HALT / HALT;
\* CP A / PUSH AF / POP BC / HALT;  ADD A,A / HALT;  INC A / HALT
FlowPrograms ==
    {<< c, 4, 1, 118, r, 118 >> : c \in CallOpcodes, r \in RetOpcodes \cup {RetiOpcode}}
        \cup {<< 197, 241, 118 >>, << 245, 193, 118 >>, << 213, 225, 118 >>,
              << 229, 209, 118 >>}
        \cup {<< j, 4, 1, 118, 118 >> : j \in {194, 210, 202, 218, 195}}
        \cup {<< j, 1, 118, 118 >> : j \in {32, 48, 40, 56, 24}}
        \cup {<< 191, 245, 193, 118 >>, << 135, 118 >>, << 60, 118 >>}

\* RST n / HALT, in an image whose byte at the vector n is RET (the seed
\* places 0xC9 there)
RstImages ==
    {[len |-> 32768, type |-> 0, seed |-> (201 + 256 * 3 - 3 * (o - 199)) % 256,
      code |-> << o, 118 >>] : o \in RstOpcodes}

FlowImages ==
    {[len |-> 32768, type |-> 0, seed |-> 5, code |-> c] : c \in FlowPrograms}
        \cup RstImages

\* A = 0x01 with the flags ZHC (as the boot program leaves them), none, Z, C
FlowAF == {432, 256, 384, 272}

\* BC as the boot program leaves it, and 0x12FF
FlowBC == {19, 4863}

\* the stack at the top of high RAM (as the boot program leaves it), at the
\* border of the two work RAM blocks and inside the first: 0xFFFE 0xD000 0xC100
FlowStacks == {65534, 53248, 49408}

InitFlow ==
    /\ rom \in FlowImages
    /\ bus = EntryBus(rom)
    /\ \E a \in FlowAF : \E b \in FlowBC : \E s \in FlowStacks :
           cpu = [EntryCpu EXCEPT !.af = a, !.bc = b, !.de = 216, !.hl = 333, !.sp = s]
    /\ drv = DrvIdle
    /\ phase = "loaded"
    /\ ret = Ok
    /\ hist = [Hist0 EXCEPT !.boot_writes = 1]

\* the bytes an opcode occupies
OpLen(opcode) ==
    IF opcode \in Imm16Opcodes \cup CallOpcodes THEN 3
    ELSE IF opcode \in Imm8Opcodes THEN 2
    ELSE 1

\* one CPU::exec; f is its opcode fetch
FlowExec(f, checks) ==
    \E x \in {ExecFetchedFlow(f, checks)} :
        /\ cpu' = x.cpu
        /\ bus' = x.bus
        /\ ret' = x.res
        /\ phase' = IF x.res = Ok THEN phase
                    ELSE IF x.res.kind = "Panic" THEN "panicked" ELSE "faulted"
        /\ hist' = [hist EXCEPT !.flow =
                       [steps |-> @.steps + 1,
                        opcode |-> f.val,
                        called |-> /\ x.res = Ok
                                   /\ f.val \in CallOpcodes \cup RstOpcodes
                                   /\ FlowCond(cpu, f.val),
                        sp |-> cpu.sp,
                        next |-> (cpu.pc + OpLen(f.val)) % 65536]]

FlowStep(checks) ==
    /\ phase = "loaded"
    /\ ~cpu.halted
    /\ hist.flow.steps < MaxFlowSteps
    /\ FlowExec(Fetch8([cpu |-> cpu, bus |-> bus, res |-> Ok]), checks)
    /\ UNCHANGED << drv, rom >>

NextFlow == \E checks \in BOOLEAN : FlowStep(checks)

SpecFlow == InitFlow /\ [][NextFlow]_vars

(***************************************************************************)
(* SpecRot: one rotate instruction is executed on an operand holding any   *)
(* byte, with the flags drawn from RotFlags; a circular rotate-left may be *)
(* followed by the circular rotate-right of the same operand.              *)
(***************************************************************************)
\* no flag, carry, zero, all four flags
RotFlags == {0, 16, 128, 240}

\* A, B, C, D, E hold v; either H and L hold v as well, or HL is 0xC000 and
\* the byte there is v
InitRot ==
    /\ \E v \in Byte : \E f \in RotFlags : \E at_hl \in BOOLEAN :
           /\ cpu = [CPU_new EXCEPT !.af = v * 256 + f, !.bc = v * 257, !.de = v * 257,
                                    !.hl = IF at_hl THEN 49152 ELSE v * 257,
                                    !.sp = 65534]
           /\ bus = IF at_hl THEN [Bus_default EXCEPT !.wram_00 = Store(@, 0, v)]
                    ELSE Bus_default
    /\ drv = DrvIdle
    /\ phase = "new"
    /\ ret = Ok
    /\ rom = NoImage
    /\ hist = Hist0

\* the operand a rotate opcode names: register or byte at HL
RotOperandOf(c, b, opcode) ==
    IF opcode % 8 = 6 THEN Bus_read(b, c.hl).val ELSE Reg8(c, opcode % 8)

\* a first rotate, or the circular rotate-right that undoes a circular
\* rotate-left of the same operand
MayRotate(opcode, prefixed) ==
    /\ phase \in {"new", "done"}
    /\ opcode % 8 = 6 => cpu.hl = 49152
    /\ \/ hist.rot.steps = 0
       \/ /\ hist.rot.steps = 1
          /\ hist.rot.opcode < 8
          /\ opcode = hist.rot.opcode + 8
          /\ prefixed = hist.rot.prefixed

Rotate(x, opcode, prefixed) ==
    /\ cpu' = x.cpu
    /\ bus' = x.bus
    /\ ret' = x.res
    /\ phase' = PhaseAfter(x.res, "done")
    /\ hist' = [hist EXCEPT !.rot =
                   [steps |-> @.steps + 1, opcode |-> opcode, prefixed |-> prefixed,
                    orig |-> IF @.steps = 0 THEN RotOperandOf(cpu, bus, opcode)
                             ELSE @.orig]]
    /\ UNCHANGED << drv, rom >>

\* CPU::op executes RLCA, RRCA, RLA or RRA
RotA(opcode) ==
    /\ MayRotate(opcode, FALSE)
    /\ Rotate(CPU_op_rot([cpu |-> cpu, bus |-> bus, res |-> Ok], opcode), opcode, FALSE)

\* CPU::op_cb executes a rotate arm
RotCb(cb) ==
    /\ MayRotate(cb, TRUE)
    /\ Rotate(CPU_op_cb([cpu |-> cpu, bus |-> bus, res |-> Ok], cb), cb, TRUE)

NextRot ==
    \/ \E opcode \in RotOpcodes : RotA(opcode)
    \/ \E cb \in CbRotOpcodes : RotCb(cb)

SpecRot == InitRot /\ [][NextRot]_vars

(***************************************************************************)
(* SpecLoad: one LD r,d8 instruction is executed. The opcode has been      *)
(* fetched, pc is 0xC000 and the byte there is the operand; the eight-bit  *)
(* registers hold eight different values and the flags are drawn from      *)
(* RotFlags.                                                               *)
(***************************************************************************)
\* 0x06 0x0E 0x16 0x1E 0x26 0x2E 0x3E
LdImmOpcodes == {6, 14, 22, 30, 38, 46, 62}

\* A = 0x11, B = 0x22, C = 0x33, D = 0x44, E = 0x55, H = 0xC1, L = 0xD2
InitLoad ==
    /\ \E v \in Byte : \E f \in RotFlags :
           /\ cpu = [CPU_new EXCEPT !.af = 17 * 256 + f, !.bc = 8755, !.de = 17493,
                                    !.hl = 49618, !.sp = 65534, !.pc = 49152]
           /\ bus = [Bus_default EXCEPT !.wram_00 = Store(@, 0, v)]
    /\ drv = DrvIdle
    /\ phase = "new"
    /\ ret = Ok
    /\ rom = NoImage
    /\ hist = Hist0

\* CPU::op executes the opcode
ExecOp(opcode) ==
    /\ phase = "new"
    /\ \E x \in {CPU_op_any([cpu |-> cpu, bus |-> bus, res |-> Ok], opcode)} :
           /\ cpu' = x.cpu
           /\ bus' = x.bus
           /\ ret' = x.res
           /\ phase' = PhaseAfter(x.res, "done")
    /\ hist' = [hist EXCEPT !.ld = [opcode |-> opcode, d8 |-> Bus_read(bus, cpu.pc).val]]
    /\ UNCHANGED << drv, rom >>

NextLoad == \E opcode \in LdImmOpcodes : ExecOp(opcode)

SpecLoad == InitLoad /\ [][NextLoad]_vars

(***************************************************************************)
(* SpecDecode: one instruction is executed from the states of SpecLoad:    *)
(* an opcode without operand, an invalid opcode, or the prefix 0xCB        *)
(* followed by one of the secondary opcodes 0x00-0x3F.                     *)
(***************************************************************************)
\* NOP, DAA, DI, EI, LD HL,SP+r8, the prefix, and the invalid opcodes
DecodeOpcodes == {0, 39, 243, 248, 251, 203} \cup InvalidOpcodes

\* the byte after the opcode
Operand == Bus_read(bus, cpu.pc).val

NextDecode ==
    \E opcode \in DecodeOpcodes :
        /\ opcode = 203 => Operand \in CbRotOpcodes \cup CbMissingOpcodes
        /\ ExecOp(opcode)

SpecDecode == InitLoad /\ [][NextDecode]_vars

(***************************************************************************)
(* SpecMem: the high RAM (127 bytes) and the first work RAM bank (4096     *)
(* bytes) of a freshly constructed bus are read and written directly, 8    *)
(* and 16 bits wide, at addresses around both ends of the block.           *)
(***************************************************************************)
MemBlocks == {"hram", "wram_00"}

\* the first two cells, the last two cells, and the two addresses after them
MemAddrs(m) == {0, 1, m.size - 2, m.size - 1, m.size, m.size + 1, 65535}

\* 0x005A 0x00FF for a byte, 0x1234 0xFF00 for a word
MemVals(width) == IF width = 1 THEN {90, 255} ELSE {4660, 65280}

InitMem ==
    /\ bus = Bus_default
    /\ cpu = CPU_new
    /\ drv = DrvIdle
    /\ phase = "new"
    /\ ret = Ok
    /\ rom = NoImage
    /\ hist = Hist0

\* Memory::read::<u8> or ::<u16> on a block
MemRead(block, width, addr) ==
    /\ phase = "new"
    /\ hist.mem.ops < MaxMemOps
    /\ \E r \in {IF width = 1 THEN Memory_read(bus[block], addr)
                  ELSE Memory_read16(bus[block], addr)} :
           /\ ret' = IF r.res = Ok THEN [kind |-> "Val", val |-> r.val] ELSE r.res
           /\ phase' = PhaseAfter(r.res, "new")
    /\ hist' = [hist EXCEPT !.mem = [ops |-> @.ops + 1, block |-> block, write |-> FALSE,
                                     width |-> width, addr |-> addr, val |-> 0]]
    /\ UNCHANGED << bus, cpu, drv, rom >>

\* Memory::write::<u8> or ::<u16> on a block
MemWrite(block, width, addr, val) ==
    /\ phase = "new"
    /\ hist.mem.ops < MaxMemOps
    /\ \E w \in {IF width = 1 THEN Memory_write(bus[block], addr, val)
                  ELSE Memory_write16(bus[block], addr, val)} :
           /\ bus' = [bus EXCEPT ![block] = w.mem]
           /\ ret' = w.res
           /\ phase' = PhaseAfter(w.res, "new")
    /\ hist' = [hist EXCEPT !.mem = [ops |-> @.ops + 1, block |-> block, write |-> TRUE,
                                     width |-> width, addr |-> addr, val |-> val]]
    /\ UNCHANGED << cpu, drv, rom >>

NextMem ==
    \/ \E block \in MemBlocks : \E width \in 1..2 : \E addr \in MemAddrs(bus[block]) :
           MemRead(block, width, addr)
    \/ \E block \in MemBlocks : \E width \in 1..2 : \E addr \in MemAddrs(bus[block]) :
           \E val \in MemVals(width) : MemWrite(block, width, addr, val)

SpecMem == InitMem /\ [][NextMem]_vars

(***************************************************************************)
(* SpecTone: a program sets the frequencies of the two tone channels of a  *)
(* freshly constructed bus and never touches them again, and the sound     *)
(* unit is ticked.                                                         *)
(***************************************************************************)
\* frequencies 2047, 2044, 2040 (periods 32, 128, 256) for channel 1 and
\* 2046, 2032 (periods 64, 512) for channel 2
ToneFreqs == {<< f1, f2 >> : f1 \in {2047, 2044, 2040}, f2 \in {2046, 2032}}

\* the bus after the frequency f was written to NRx3 and NRx4 at addr, addr+1
FreqWritten(b, addr, f) == Bus_write(Bus_write(b, addr, f % 256).bus, addr + 1, f \div 256).bus

InitTone ==
    /\ \E f \in ToneFreqs :
           bus = FreqWritten(FreqWritten(Bus_default, 65299, f[1]), 65304, f[2])
    /\ cpu = CPU_new
    /\ drv = DrvIdle
    /\ phase = "new"
    /\ ret = Ok
    /\ rom = NoImage
    /\ hist = Hist0

\* the tick numbers of the last two reloads of a timer that went from
\* `before` to `after` in tick number n
Reloads(prev, last, before, after, n) ==
    IF after > before THEN << last, n >> ELSE << prev, last >>

\* the emulation thread calls APU::tick
ToneTick ==
    /\ hist.tone.ticks < MaxToneTicks
    /\ \E a \in {APU_tick(bus.apu)} :
           /\ bus' = [bus EXCEPT !.apu = a]
           /\ \E r1 \in {Reloads(hist.tone.prev[1], hist.tone.last[1],
                                  bus.apu.ch1.timer_counter, a.ch1.timer_counter,
                                  hist.tone.ticks + 1)} :
              \E r2 \in {Reloads(hist.tone.prev[2], hist.tone.last[2],
                                  bus.apu.ch2.timer_counter, a.ch2.timer_counter,
                                  hist.tone.ticks + 1)} :
                  hist' = [hist EXCEPT !.tone = [ticks |-> @.ticks + 1,
                                                 prev |-> << r1[1], r2[1] >>,
                                                 last |-> << r1[2], r2[2] >>]]
    /\ ret' = Ok
    /\ UNCHANGED << cpu, drv, phase, rom >>

NextTone == ToneTick

SpecTone == InitTone /\ [][NextTone]_vars

(***************************************************************************)
(* Sound unit properties (SpecAPU).                                        *)
(***************************************************************************)
\* the two tone channels of the unit
Tones(apu) == << apu.ch1, apu.ch2 >>

\* the NRx4 address of each tone channel: 0xFF14, 0xFF19
TriggerAddrs == << 65300, 65305 >>

\* the values with bit 7 set: every setting of the bits NRx4 keeps (6 and
\* 2-0), and two values with the unused bits 5-3 set
TriggerVals == {128 + 64 * l + f : l \in 0..1, f \in 0..7} \cup {184, 255}

\* C11: whatever the state of a tone channel when the program writes, a
\* write to its NRx4 with bit 7 set leaves the channel enabled and its volume
\* equal to the start-volume field (bits 7-4) of its NRx2.
C11_TriggerReloads ==
    InWriteWindow =>
        \A i \in 1..2 : \A v \in TriggerVals :
            LET w == Bus_write(bus, TriggerAddrs[i], v)
                ch == Tones(w.bus.apu)[i]
            IN  /\ w.res = Ok
                /\ ch.enabled
                /\ ch.volume = BitAnd(Tones(bus.apu)[i].nrx2, 240) \div 16

\* channel 1 was given start volume 5 and then triggered, before any
\* envelope clock
C11_TriggeredAtFive ==
    /\ hist.apu_ticks < EnvTicks
    /\ hist.apu_writes = 2
    /\ bus.apu.ch1.nrx2 = 83
    /\ bus.apu.ch1.enabled
    /\ bus.apu.ch1.volume = 5

\* the step is an APU tick; it is a 64 Hz (envelope) clock, a 256 Hz (length)
\* clock
IsApuTick == hist'.apu_ticks = hist.apu_ticks + 1
IsEnvClock == IsApuTick /\ bus.apu.clk_64 = 4
IsLenClock == IsApuTick /\ bus.apu.clk_256 = 4

\* the envelope of the channel is active with a nonzero period
EnvActive(ch) == ch.vol_env_enabled /\ BitAnd(ch.nrx2, 7) > 0

\* the volume one envelope step away, in the direction of bit 3 of NRx2
EnvTarget(ch) == IF Bit(ch.nrx2, 3) THEN ch.volume + 1 ELSE ch.volume - 1

\* C12: an envelope clock that would take the volume of a channel above 15
\* or below 0 leaves the volume unchanged and disables the automatic
\* adjustment, and an envelope clock of a channel whose adjustment is
\* disabled leaves its volume unchanged.
C12_EnvelopeStopsAtLimits ==
    [][\A i \in 1..2 :
          LET ch == Tones(bus.apu)[i]
              ch_n == Tones(bus.apu)[i]'
          IN  /\ (IsEnvClock /\ EnvActive(ch) /\ EnvTarget(ch) \notin 0..15)
                    => (ch_n.volume = ch.volume /\ ~ch_n.vol_env_enabled)
              /\ (IsEnvClock /\ ~ch.vol_env_enabled)
                    => ch_n.volume = ch.volume]_vars

\* channel 1 was triggered at volume 0 with a decreasing envelope, and the
\* envelope clock took its volume below 0 with the envelope still enabled
C12_SteppedBelowZero ==
    /\ hist.apu_ticks >= EnvTicks
    /\ bus.apu.ch1.volume = -1
    /\ bus.apu.ch1.vol_env_enabled
    /\ ~Bit(bus.apu.ch1.nrx2, 3)

\* C13: in every state reached by register writes, triggers and APU ticks,
\* the volume of each tone channel is within 0..15.
C13_VolumeInRange ==
    \A i \in 1..2 : Tones(bus.apu)[i].volume \in 0..15

\* an enabled channel with its DAC on feeds the mixer a level below -15,
\* the lowest level a volume within 0..15 gives
C13_OutputBelowFloor ==
    \E i \in 1..2 :
        /\ Tones(bus.apu)[i].enabled
        /\ Tones(bus.apu)[i].volume < 0
        /\ ToneChannel_get_channel_out(Tones(bus.apu)[i]) < -15

\* C14: on an envelope clock of a channel whose envelope is active with
\* period P > 0, the sub-counter loaded by the trigger is decremented; only
\* when it reaches zero is it reloaded from P and the volume moved one step
\* (if that keeps it within 0..15), otherwise the volume and P stay as they
\* are.
C14_EnvelopeEveryPeriod ==
    [][\A i \in 1..2 :
          LET ch == Tones(bus.apu)[i]
              ch_n == Tones(bus.apu)[i]'
              P == BitAnd(ch.nrx2, 7)
          IN  (IsEnvClock /\ EnvActive(ch) /\ ch.vol_ctr >= 1)
                  => IF ch.vol_ctr = 1
                     THEN /\ ch_n.vol_ctr = P
                          /\ ch_n.nrx2 = ch.nrx2
                          /\ EnvTarget(ch) \in 0..15 => ch_n.volume = EnvTarget(ch)
                     ELSE /\ ch_n.vol_ctr = ch.vol_ctr - 1
                          /\ ch_n.nrx2 = ch.nrx2
                          /\ ch_n.volume = ch.volume]_vars

\* channel 1 was triggered at volume 5 with period 3, and the first envelope
\* clock already moved its volume to 4, leaving period 2 in NR12
C14_SteppedOnFirstClock ==
    /\ hist.apu_ticks >= EnvTicks
    /\ bus.apu.ch1.vol_ctr = 3
    /\ bus.apu.ch1.nrx2 = 82
    /\ bus.apu.ch1.volume = 4

\* the length counter of a channel (bits 5-0 of NRx1) and its enable bit
\* (bit 6 of NRx4)
LenOf(ch) == BitAnd(ch.nrx1, 63)
LenEnabled(ch) == Bit(ch.nrx4, 6)

\* the step is a write to the channel's NRx4 with bit 7 set
IsTriggerOf(i) ==
    /\ hist'.last_write[1] = TriggerAddrs[i]
    /\ hist'.last_write[2] >= 128

\* C15: a length clock of a channel with length enable set and a nonzero
\* length counter decrements the counter by one, and disables the channel
\* exactly when the counter becomes zero; a tick of a channel with length
\* enable clear, and a tick that is no length clock, change neither the
\* counter nor the enabled flag; and a disabled channel stays disabled under
\* every step that is not a trigger of it.
C15_LengthCounter ==
    [][\A i \in 1..2 :
          LET ch == Tones(bus.apu)[i]
              ch_n == Tones(bus.apu)[i]'
          IN  /\ (IsLenClock /\ LenEnabled(ch) /\ LenOf(ch) # 0)
                    => /\ LenOf(ch_n) = LenOf(ch) - 1
                       /\ ch_n.enabled = (ch.enabled /\ LenOf(ch_n) # 0)
              /\ (IsApuTick /\ (~IsLenClock \/ ~LenEnabled(ch)))
                    => (LenOf(ch_n) = LenOf(ch) /\ ch_n.enabled = ch.enabled)
              /\ (~ch.enabled /\ ~IsTriggerOf(i)) => ~ch_n.enabled]_vars

\* channel 1 was triggered with length enable and a length of 1, and the
\* length clock has disabled it
C15_ExpiredAfterTrigger ==
    /\ hist.apu_ticks >= EnvTicks
    /\ Bit(bus.apu.ch1.nrx4, 7)
    /\ LenEnabled(bus.apu.ch1)
    /\ LenOf(bus.apu.ch1) = 0
    /\ ~bus.apu.ch1.enabled

(***************************************************************************)
(* Mixer properties (SpecMixer).                                           *)
(***************************************************************************)
\* the step is a tick in which the mixer offers a sample to the queue
IsPush == hist'.pushes = hist.pushes + 1

\* C16: the sample queue never holds more than 1024 samples; a sample offered
\* to a queue of 1024 is dropped and leaves the queued samples as they are,
\* a sample offered to a shorter queue is added behind them; so with no
\* consumer the queue keeps the first 1024 samples.
C16_QueueBounded ==
    [][LET q == bus.apu.sample_channel
           q_n == bus.apu.sample_channel'
       IN  /\ Len(q_n) <= SAMPLE_CAPACITY
           /\ IsPush =>
                 IF Len(q) = SAMPLE_CAPACITY
                 THEN q_n = q
                 ELSE Len(q_n) = Len(q) + 1 /\ SubSeq(q_n, 1, Len(q)) = q
           /\ ~IsPush => q_n = q]_vars

\* 1025 samples were offered with the unit powered and channel 1 triggered,
\* and the queue holds 1024 of them
C16_DroppedOneMore ==
    /\ hist.pushes = SAMPLE_CAPACITY + 1
    /\ Len(bus.apu.sample_channel) = SAMPLE_CAPACITY
    /\ bus.apu.ch1.enabled
    /\ Bit(bus.apu.nr52, 7)

(***************************************************************************)
(* Arithmetic properties (SpecALU).                                        *)
(***************************************************************************)
\* the step executes an opcode of the set
IsArith(ops) == phase = "new" /\ hist'.alu.opcode \in ops

\* the register operand of the opcode the step executes
ArithOperand == Reg8(cpu, hist'.alu.opcode % 8)

\* C17: for 8-bit a (the accumulator) and b (the operand), subtract and
\* compare complete with: if b > a, carry and subtract set, zero clear and
\* half-carry = ((b & 0xF) > (a & 0xF)); if b <= a, carry clear and zero =
\* (a = b).  Subtract leaves (a - b) mod 256 in A, compare leaves A alone.
C17_SubtractFlags ==
    [][IsArith(SubOpcodes \cup CpOpcodes) =>
          LET a == Hi(cpu.af)
              b == ArithOperand
          IN  /\ ret' = Ok
              /\ b > a => /\ cy(cpu')
                          /\ sf(cpu')
                          /\ ~zf(cpu')
                          /\ hc(cpu') = ((b % 16) > (a % 16))
              /\ b <= a => (~cy(cpu') /\ zf(cpu') = (a = b))
              /\ Hi(cpu'.af) = IF hist'.alu.opcode \in SubOpcodes
                                THEN (a - b) % 256 ELSE a]_vars

\* SUB A,A was executed on a nonzero accumulator: A is 0 and the zero flag
\* is clear
C17_SubSelfNotZero ==
    /\ hist.alu.opcode = 151
    /\ ret = Ok
    /\ Hi(cpu.af) = 0
    /\ ~zf(cpu)

\* C18: 8-bit add and add-with-carry (c the carry flag, 0 for add) complete
\* with A = (a + b + c) mod 256, zero = (A = 0), subtract clear, half-carry =
\* ((a & 0xF) + (b & 0xF) + c > 0xF) and carry = (a + b + c > 0xFF).
C18_AddFlags ==
    [][IsArith(AddOpcodes \cup AdcOpcodes) =>
          LET a == Hi(cpu.af)
              b == ArithOperand
              c == IF hist'.alu.opcode \in AdcOpcodes /\ cy(cpu) THEN 1 ELSE 0
          IN  /\ ret' = Ok
              /\ Hi(cpu'.af) = (a + b + c) % 256
              /\ zf(cpu') = ((a + b + c) % 256 = 0)
              /\ ~sf(cpu')
              /\ hc(cpu') = ((a % 16) + (b % 16) + c > 15)
              /\ cy(cpu') = (a + b + c > 255)]_vars

\* ADD A,A was executed on A = 0x08 (or 0x88): A is 0x10 and the half-carry
\* flag is clear
C18_DoubledWithoutHalfCarry ==
    /\ hist.alu.opcode = 135
    /\ ret = Ok
    /\ Hi(cpu.af) = 16
    /\ ~hc(cpu)

\* C19: 8-bit increment and decrement of v, 0xFF and 0x00 included, complete
\* with the register at (v + 1) mod 256, resp. (v - 1) mod 256, zero =
\* (result = 0), half-carry = ((v & 0xF) = 0xF), resp. ((v & 0xF) = 0),
\* subtract clear, resp. set, and carry unchanged.
C19_IncDecFlags ==
    [][IsArith(IncOpcodes \cup DecOpcodes) =>
          LET up == hist'.alu.opcode \in IncOpcodes
              r == hist'.alu.opcode \div 8
              v == Reg8(cpu, r)
              n == IF up THEN (v + 1) % 256 ELSE (v - 1) % 256
          IN  /\ ret' = Ok
              /\ Reg8(cpu', r) = n
              /\ zf(cpu') = (n = 0)
              /\ hc(cpu') = (v % 16 = IF up THEN 15 ELSE 0)
              /\ sf(cpu') = ~up
              /\ cy(cpu') = cy(cpu)]_vars

\* an increment of 0xFF or a decrement of 0x00 ended in the overflow panic
\* of a build with overflow checks
C19_WrapPanicked ==
    /\ hist.alu.opcode \in IncOpcodes \cup DecOpcodes
    /\ hist.alu.checks
    /\ ret = Overflowed
    /\ phase = "panicked"

\* C20: the 16-bit add of BC, DE, HL or SP to HL completes with HL =
\* (HL + src) mod 65536, half-carry = carry out of bit 11, carry = carry out
\* of bit 15, subtract clear and zero unchanged.
C20_Add16Flags ==
    [][IsArith(Add16Opcodes) =>
          LET old == cpu.hl
              src == Reg16(cpu, hist'.alu.opcode \div 16)
          IN  /\ ret' = Ok
              /\ cpu'.hl = (old + src) % 65536
              /\ hc(cpu') = ((old % 4096) + (src % 4096) > 4095)
              /\ cy(cpu') = (old + src > 65535)
              /\ ~sf(cpu')
              /\ zf(cpu') = zf(cpu)]_vars

\* ADD HL,BC was executed on HL = BC = 0x0008: HL is 0x0010 and the
\* half-carry flag is set
C20_HalfCarryFromBitThree ==
    /\ hist.alu.opcode = 9
    /\ ret = Ok
    /\ cpu.bc = 8
    /\ cpu.hl = 16
    /\ hc(cpu)

(***************************************************************************)
(* Stack and control flow properties (SpecFlow).                           *)
(***************************************************************************)
\* C21: in every CPU state reached by any sequence of instructions (POP AF,
\* which loads AF from memory, and the flag-setting operations included),
\* bits 0-3 of the low byte of AF are zero.
C21_FlagLowNibbleZero == Lo(cpu.af) % 16 = 0

\* PUSH BC / POP AF was executed with BC = 0x12FF: AF is 0x12FF
C21_PoppedLowNibble ==
    /\ hist.flow.opcode = 241
    /\ ret = Ok
    /\ cpu.af = 4863

\* the step is one CPU::exec of SpecFlow
IsFlowStep == phase = "loaded" /\ hist'.flow.steps = hist.flow.steps + 1

\* the 16-bit operand that follows the opcode at pc
OperandAtPc ==
    Bus_read(bus, (cpu.pc + 1) % 65536).val + 256 * Bus_read(bus, (cpu.pc + 2) % 65536).val

CondOpcodes ==
    {32, 48, 40, 56, 194, 210, 202, 218, 196, 212, 204, 220, 192, 208, 200, 216}

UncondOf(opcode) ==
    IF opcode \in {32, 48, 40, 56} THEN 24
    ELSE IF opcode \in {194, 210, 202, 218} THEN 195
    ELSE IF opcode \in {196, 212, 204, 220} THEN 205
    ELSE 201

\* the condition of the conditional opcode
CondOf(c, opcode) ==
    IF opcode \in Imm8Opcodes \cup Imm16Opcodes THEN JumpCond(c, opcode)
    ELSE FlowCond(c, opcode)

\* the cycles the unconditional form costs when executed in place of the
\* opcode fetched by f
UncondCost(f, opcode) == CPU_op_flow(f.m, UncondOf(opcode), FALSE).cpu.clk - cpu.clk

\* C23: a conditional jump, relative jump, call or return whose condition
\* does not hold leaves PC just past the instruction, SP and memory
\* unchanged, and costs only the cycles of fetching its bytes; one whose
\* condition holds costs exactly the cycles of the unconditional form.
C23_BranchCost ==
    [][(IsFlowStep /\ hist'.flow.opcode \in CondOpcodes) =>
          LET op == hist'.flow.opcode
          IN  /\ ret' = Ok
              /\ IF CondOf(cpu, op)
                 THEN cpu'.clk - cpu.clk
                          = UncondCost(Fetch8([cpu |-> cpu, bus |-> bus, res |-> Ok]), op)
                 ELSE /\ cpu'.pc = cpu.pc + OpLen(op)
                      /\ cpu'.sp = cpu.sp
                      /\ bus' = bus
                      /\ cpu'.clk = cpu.clk + 4 * OpLen(op)]_vars

\* CALL NZ with Z set was skipped (PC 0x0103 after 12 cycles, SP in place),
\* and in another run RET NZ with Z clear was taken after a call
C23_SkippedCall ==
    /\ hist.flow.opcode = 196
    /\ hist.flow.steps = 1
    /\ zf(cpu)
    /\ cpu.pc = 259
    /\ cpu.clk = 12
    /\ cpu.sp = 53248

(***************************************************************************)
(* Register window properties (SpecPPU, SpecBus).                          *)
(***************************************************************************)
\* C24: whatever the state of the picture unit and whatever value is
\* written to the LCD status register 0xFF41, a bus read of 0xFF41 returns a
\* byte whose bits 7 and 6 are both 1.
C24_StatTopBits ==
    /\ Bus_read(bus, 65345).val \div 64 = 3
    /\ \A v \in Byte :
           LET r == Bus_read(Bus_write(bus, 65345, v).bus, 65345)
           IN  r.res = Ok /\ r.val \div 64 = 3

\* the frame positions at which the four modes begin: OAM search, transfer
\* and h-blank on line 0, v-blank on line 144
StatProbes == {0, 80, 256, 65664}

\* C24 (amended): whatever the state of the picture unit and whatever value
\* is written to 0xFF41, a bus read of 0xFF41 returns bit 7 as 1 and the low
\* seven bits as stored: bit 6 reads back as written.
C24_StatTopBit ==
    /\ Bus_read(bus, 65345) = [res |-> Ok, val |-> 128 + (bus.ppu.stat_reg % 128)]
    /\ bus.ppu.tstate \in StatProbes =>
           \A v \in Byte :
               Bus_read(Bus_write(bus, 65345, v).bus, 65345)
                   = [res |-> Ok, val |-> 128 + (v % 128)]

\* 0x03 was written to 0xFF41 at the start of a frame: it reads as 0x83
C24_StatReadsWithoutBitSix ==
    /\ bus.ppu.stat_reg = 3
    /\ bus.ppu.tstate = 0
    /\ ret = Ok
    /\ Bus_read(bus, 65345) = [res |-> Ok, val |-> 131]

\* the addresses no register answers to: 0xFF15, 0xFF1F, 0xFF27-0xFF2F in the
\* sound window, 0xFF4C-0xFF4F and 0xFF51-0xFF6F in the video windows
UnusedSound == {65301, 65311} \cup (65319..65327)

UnusedVideo == (65356..65359) \cup (65361..65391)

\* C25: every unused address of the sound window and of the video windows
\* reads through the bus as 0xFF without fault, and a bus write to it
\* succeeds and changes nothing.
C25_UnusedReadsOnes ==
    \A a \in UnusedSound \cup UnusedVideo :
        /\ Bus_read(bus, a) = [res |-> Ok, val |-> 255]
        /\ \A v \in {0, 165} : Bus_write(bus, a, v) = [res |-> Ok, bus |-> bus]

\* the bus was read at 0xFF4C: the read ended in the picture unit's
\* unreachable!() panic
C25_UnusedVideoReadPanicked ==
    /\ phase = "panicked"
    /\ ret = Panic("unreachable")
    /\ Bus_read(bus, 65356).res = Panic("unreachable")

\* the first and last address of every range Bus::read or Bus::write
\* decodes, and of the gaps between them
ProbeAddrs ==
    {0, 8191, 8192, 16383, 16384, 24575, 24576, 32767, 32768, 40959, 40960, 49151,
     49152, 53247, 53248, 57343, 57344, 61439, 61440, 65023, 65024, 65183, 65184,
     65279, 65280, 65281, 65282, 65283, 65284, 65287, 65288, 65294, 65295, 65296,
     65343, 65344, 65355, 65356, 65357, 65359, 65360, 65361, 65391, 65392, 65407,
     65408, 65534, 65535}

\* C26: the bus decodes the same addresses for reads and for writes: an
\* address faults with BusFault(address) on a read exactly if it does on a
\* write, such a write changes nothing, and wherever a write succeeds a read
\* succeeds too.
C26_SameDecoding ==
    phase = "loaded" =>
        \A a \in ProbeAddrs :
            LET r == Bus_read(bus, a)
                w == Bus_write(bus, a, 1)
            IN  /\ (r.res = BusFault(a)) = (w.res = BusFault(a))
                /\ w.res = BusFault(a) => w.bus = bus
                /\ w.res = Ok => r.res = Ok

\* the bus was read at 0xFEA0, where a write succeeds: the read returned a
\* bus fault
C26_ReadFaultsWhereWriteSucceeds ==
    /\ phase = "loaded"
    /\ ret = BusFault(65184)
    /\ Bus_write(bus, 65184, 1).res = Ok

\* first and last address of the RAM bank select range 0x4000-0x5FFF and of
\* the mode select range 0x6000-0x7FFF
SelectProbes == {16384, 24575, 24576, 32767}

\* C27: every bus write to 0x4000-0x5FFF or 0x6000-0x7FFF fails with an
\* invalid bank-controller-operation fault carrying the written value and
\* leaves the bus (selected bank, ROM banks, all RAM) as it was.
C27_BankSelectsFail ==
    phase = "loaded" =>
        \A a \in SelectProbes : \A v \in {0, 1, 165, 255} :
            Bus_write(bus, a, v) = [res |-> InvalidMbcOp("RamBank", v), bus |-> bus]

\* a write of 0xA5 to one of the two ranges was executed and failed
C27_SelectWriteFailed ==
    /\ phase = "loaded"
    /\ ret = InvalidMbcOp("RamBank", 165)
    /\ Bus_write(bus, 16384, 165).res = ret

\* work RAM addresses 0xC000+k and 0xD000+k for k = 0, 1, 0xDFF, 0xE00, 0xFFF
WramProbes == {b + k : b \in {49152, 53248}, k \in {0, 1, 3583, 3584, 4095}}

\* the echo address of a work RAM address, where it has one (up to 0xFDFF)
EchoOf(a) == a + 8192

HasEcho(a) == EchoOf(a) <= 65023

\* addresses written between the write and the read back: every range of
\* the bus, and work RAM and echo cells next to the probed ones
OtherWrites ==
    WriteAddrs \cup {40960, 49153, 53247, 53249, 57345, 61439, 61441, 65023, 65408}

\* C28: a byte written through the bus to work RAM is read back at the same
\* address and at its echo address, a byte written to the echo address is
\* read back at the base address, and a write to any other address leaves
\* what the work RAM address and its echo read.
C28_WorkRamRoundTrip ==
    phase = "loaded" =>
        /\ \A a \in WramProbes : \A v \in {0, 90, 255} :
               LET w == Bus_write(bus, a, v)
                   e == Bus_write(bus, EchoOf(a), v)
               IN  /\ w.res = Ok
                   /\ Bus_read(w.bus, a) = [res |-> Ok, val |-> v]
                   /\ HasEcho(a) =>
                          /\ Bus_read(w.bus, EchoOf(a)) = [res |-> Ok, val |-> v]
                          /\ e.res = Ok
                          /\ Bus_read(e.bus, a) = [res |-> Ok, val |-> v]
        /\ \A o \in OtherWrites :
               LET w == Bus_write(bus, o, 90)
               IN  \A a \in WramProbes \ {o, o - 8192} :
                       /\ Bus_read(w.bus, a) = Bus_read(bus, a)
                       /\ HasEcho(a) => Bus_read(w.bus, EchoOf(a)) = Bus_read(bus, a)

\* 0xA5 was written to work RAM, other addresses were written after it, and
\* 0xC000 still reads 0xA5, as does its echo 0xE000
C28_WorkRamKept ==
    /\ phase = "loaded"
    /\ ret = InvalidMbcOp("RomBank", 255)
    /\ hist.boot_writes = 1
    /\ Bus_read(bus, 49152) = [res |-> Ok, val |-> 165]
    /\ Bus_read(bus, 57344) = [res |-> Ok, val |-> 165]

\* images of one bank, of exactly one and two banks, of one byte more than a
\* bank and of three banks and a part, with header types on both sides of
\* the supported range
LoadProbes ==
    {[len |-> l, type |-> ty, seed |-> 5, code |-> << >>] :
        l \in {328, 16384, 16385, 32768, 49168}, ty \in {0, 1, 2, 3, 4, 5, 127, 255}}

\* offsets into an image: the ends of the boot overlay, the header byte, and
\* the ends of the banks
ImageProbes == {0, 1, 255, 256, 327, 16383, 16384, 16385, 32767, 32768, 49151, 49152, 49167}

BanksOf(img) == (img.len + BANK_SIZE - 1) \div BANK_SIZE

\* bank i of b holds the image bytes i*0x4000 .. i*0x4000+0x3FFF, the first
\* 256 bytes of bank 0 being covered by the boot overlay while it is on
Partitioned(b, img, overlay) ==
    /\ Len(b.rom_banks) = BanksOf(img)
    /\ \A i \in ImageProbes :
           i < img.len =>
               Cell(b.rom_banks[(i \div BANK_SIZE) + 1], i % BANK_SIZE)
                   = IF overlay /\ i < BOOT_LEN THEN BOOT_ROM[i + 1] ELSE ImageByte(img, i)
    /\ overlay => \A i \in ImageProbes :
                      i < BOOT_LEN => b.rom_backup[i] = ImageByte(img, i)

\* C29: load_rom splits the image into consecutive 16 KiB banks and reads the
\* type from byte 0x147: with type 0x00-0x03 it succeeds and the boot overlay
\* covers the first 256 bytes of bank 0; with any other type it fails with
\* UnsupportedMbcType carrying the type.
C29_LoadCartridge ==
    /\ phase = "new" =>
           \A img \in LoadProbes :
               LET r == Bus_load_rom(bus, img)
               IN  IF img.type <= 3
                   THEN r.res = Ok /\ Partitioned(r.bus, img, TRUE)
                   ELSE r.res = UnsupportedMbcType(img.type)
    /\ phase = "loaded" =>
           /\ rom.type <= 3
           /\ Partitioned(bus, rom, hist.boot_writes = 0)
    /\ phase = "failed" =>
           /\ rom.type > 3
           /\ ret = UnsupportedMbcType(rom.type)

\* the four-bank image of type 0 was loaded: its fourth bank starts with the
\* image byte at 0xC000 and the overlay is in place
C29_LoadedFourBanks ==
    /\ phase = "loaded"
    /\ ret = Ok
    /\ hist.boot_writes = 0
    /\ rom.len = 49168
    /\ Len(bus.rom_banks) = 4
    /\ Cell(bus.rom_banks[4], 0) = ImageByte(rom, 49152)
    /\ Cell(bus.rom_banks[1], 0) = BOOT_ROM[1]

(***************************************************************************)
(* Rotate properties (SpecRot).                                            *)
(***************************************************************************)
IsRotStep == hist'.rot.steps = hist.rot.steps + 1

OneIf(b) == IF b THEN 1 ELSE 0

\* what a rotate of v must give: left or right, the bit shifted in being the
\* bit shifted out (circular) or the old carry
RotResult(v, left, circular, carry) ==
    IF left
    THEN ((2 * v) % 256) + OneIf(IF circular THEN v >= 128 ELSE carry)
    ELSE (v \div 2) + 128 * OneIf(IF circular THEN v % 2 = 1 ELSE carry)

\* C30: a rotate leaves in its operand the value rotated by one bit (the bit
\* shifted in is the bit shifted out for the circular forms, the old carry
\* for the others), the carry flag holds the bit shifted out, subtract and
\* half-carry are clear, zero says whether the result is 0 except after
\* 0x07/0x0F/0x17/0x1F, which clear it; a circular rotate-right after a
\* circular rotate-left gives back the original operand.
C30_Rotate ==
    [][IsRotStep =>
        LET op == hist'.rot
            v == RotOperandOf(cpu, bus, op.opcode)
            left == (op.opcode \div 8) % 2 = 0
            circular == op.opcode < 16
            res == RotResult(v, left, circular, cy(cpu))
        IN  /\ ret' = Ok
            /\ RotOperandOf(cpu', bus', op.opcode) = res
            /\ cy(cpu') = (IF left THEN v >= 128 ELSE v % 2 = 1)
            /\ ~sf(cpu')
            /\ ~hc(cpu')
            /\ zf(cpu') = (op.prefixed /\ res = 0)
            /\ op.steps = 2 => res = op.orig]_vars

\* RLCA then RRCA on A = 0x80: A is 0x80 again, carry is set by the bit
\* shifted out and the zero flag is clear
C30_RotatedBack ==
    /\ hist.rot = [steps |-> 2, opcode |-> 15, prefixed |-> FALSE, orig |-> 128]
    /\ Hi(cpu.af) = 128
    /\ cy(cpu)
    /\ ~zf(cpu)

(***************************************************************************)
(* Tone channel register and timer properties (SpecAPU).                   *)
(***************************************************************************)
\* NR12 and NR22, the volume-envelope registers of the two tone channels
EnvelopeAddrs == << 65298, 65303 >>

\* C31: the value written to NRx2 is what a bus read of NRx2 returns, and
\* it stays so across every APU tick (envelope clocks included) and every
\* write to another register (triggers included), until NRx2 is written
\* again.
C31_EnvelopeRegisterReadsBack ==
    [][\A i \in 1..2 :
          LET a == EnvelopeAddrs[i]
          IN  IF hist'.last_write[1] = a
              THEN Bus_read(bus', a) = [res |-> Ok, val |-> hist'.last_write[2]]
              ELSE Bus_read(bus', a) = Bus_read(bus, a)]_vars

\* 0x53 was written to NR12, channel 1 was triggered, and after the envelope
\* clock NR12 reads 0x52
C31_ReadsOneLess ==
    /\ hist.apu_ticks >= EnvTicks
    /\ hist.apu_writes = 2
    /\ bus.apu.ch1.volume = 4
    /\ Bus_read(bus, 65298) = [res |-> Ok, val |-> 82]

IsToneTick == hist'.tone.ticks = hist.tone.ticks + 1

\* C32: with the frequency unchanged, every APU tick either takes 4 off the
\* timer of a tone channel or reloads it; the timer stays within 0..period,
\* and two successive reloads are period / 4 ticks, i.e. exactly
\* period = (2048 - frequency) << 5 cycles, apart.
C32_TimerPeriod ==
    [][IsToneTick =>
        \A i \in 1..2 :
            LET ch == Tones(bus.apu)[i]
                ch_n == Tones(bus.apu)[i]'
                period == ToneChannel_period(ch)
                prev == hist'.tone.prev[i]
                last == hist'.tone.last[i]
            IN  /\ ToneChannel_period(ch_n) = period
                /\ ch_n.timer_counter \in 0..period
                /\ last # hist'.tone.ticks => ch_n.timer_counter = ch.timer_counter - 4
                /\ (last = hist'.tone.ticks /\ prev > 0) => (last - prev) * 4 = period]_vars

\* channel 1 at frequency 2047 (period 32 cycles) reloaded its timer at
\* ticks 1 and 10, 36 cycles apart
C32_ReloadedLate ==
    /\ ToneChannel_period(bus.apu.ch1) = 32
    /\ hist.tone.prev[1] = 1
    /\ hist.tone.last[1] = 10
    /\ hist.tone.ticks = 10
    /\ bus.apu.ch1.timer_counter = 32

(***************************************************************************)
(* Memory block properties (SpecMem).                                      *)
(***************************************************************************)
IsMemOp == hist'.mem.ops = hist.mem.ops + 1

\* C33: an access that is not entirely inside the block (address + width
\* beyond its size) returns MemFault(address) and leaves the block as it
\* was; an access inside succeeds, a 16-bit write storing the low byte at
\* the address and the high byte at address + 1, and a 16-bit read
\* returning the two bytes the same way.
C33_MemoryBounds ==
    [][IsMemOp =>
        LET op == hist'.mem
            m == bus[op.block]
            m_n == bus'[op.block]
        IN  IF op.addr + op.width > m.size
            THEN ret' = MemFault(op.addr) /\ bus' = bus
            ELSE IF op.write
            THEN /\ ret' = Ok
                 /\ Cell(m_n, op.addr) = op.val % 256
                 /\ op.width = 2 => Cell(m_n, op.addr + 1) = op.val \div 256
            ELSE /\ bus' = bus
                 /\ ret' = [kind |-> "Val",
                            val |-> Cell(m, op.addr)
                                      + (IF op.width = 2 THEN 256 * Cell(m, op.addr + 1) ELSE 0)]]_vars

\* a 16-bit read that starts on the last byte of the high RAM ended in a
\* panic instead of a memory fault
C33_WordAtLastByte ==
    /\ hist.mem.block = "hram"
    /\ hist.mem.width = 2
    /\ ~hist.mem.write
    /\ hist.mem.addr = HRAM_SIZE - 1
    /\ ret = ShortSlice
    /\ phase = "panicked"

(***************************************************************************)
(* Scanline register (SpecPPU).                                            *)
(***************************************************************************)
\* C34: in every state reached by ticks and writes to the video registers
\* (display switched on and off) the counter is a multiple of 4 within
\* 0..70223 and 0xFF44 reads counter / 456, a value within 0..153; a write
\* to 0xFF44 changes nothing.
C34_ScanlineFollowsCounter ==
    /\ bus.ppu.tstate \in 0..(FRAME_CYCLES - 1)
    /\ bus.ppu.tstate % TICK_CYCLES = 0
    /\ Bus_read(bus, 65348) = [res |-> Ok, val |-> bus.ppu.tstate \div LINE_CYCLES]
    /\ bus.ppu.tstate \div LINE_CYCLES \in 0..(SCANLINES - 1)
    /\ bus.ppu.tstate % LINE_CYCLES = 0 =>
           \A v \in {0, 99, 153, 255} :
               Bus_write(bus, 65348, v) = [res |-> Ok, bus |-> bus]

\* the display was switched off at the start of the last scanline and the
\* unit was ticked while off: 0xFF44 still reads 153, also after a write
C34_FrozenOnLastLine ==
    /\ bus.ppu.tstate = (SCANLINES - 1) * LINE_CYCLES
    /\ ~Bit(bus.ppu.lcdc_reg, 7)
    /\ hist.off_tick
    /\ Bus_read(Bus_write(bus, 65348, 0).bus, 65348) = [res |-> Ok, val |-> 153]

(***************************************************************************)
(* ROM contents (SpecBus) and sprite memory (SpecOam).                               *)
(***************************************************************************)
\* the ends of the four write ranges below 0x8000, and one address of every
\* other range Bus::write decodes
RomWriteProbes ==
    {0, 8191, 8192, 16383, 16384, 24575, 24576, 32767,
     32768, 40960, 49152, 53248, 57344, 65024, 65184, 65280, 65283, 65296, 65344,
     65357, 65360, 65408, 65535}

\* the cells of a memory block from address n on are the same in m and m2
SameFrom(m, m2, n) ==
    /\ m2.size = m.size
    /\ m2.fill = m.fill
    /\ \A i \in (DOMAIN m.over) \cup (DOMAIN m2.over) : i >= n => Cell(m2, i) = Cell(m, i)

\* C35: a bus write leaves every ROM bank as it was, whether it is accepted
\* or rejected; the write to 0xFF50 alone changes ROM, and only the first
\* 256 bytes of bank 0.
C35_RomNotWritable ==
    phase = "loaded" =>
        \A a \in RomWriteProbes : \A v \in {1, 165} :
            LET w == Bus_write(bus, a, v)
            IN  IF a = 65360
                THEN /\ Len(w.bus.rom_banks) = Len(bus.rom_banks)
                     /\ SameFrom(bus.rom_banks[1], w.bus.rom_banks[1], BOOT_LEN)
                     /\ Tail(w.bus.rom_banks) = Tail(bus.rom_banks)
                ELSE w.bus.rom_banks = bus.rom_banks

\* the overlay was switched off by a write to 0xFF50: the banks hold the
\* image again, from the first byte of bank 0 on, and a write of 0xA5 to
\* 0x0000 is accepted and changes nothing
C35_AcceptedWithoutStore ==
    /\ phase = "loaded"
    /\ ret = Ok
    /\ hist.boot_writes = 1
    /\ bus.wram_00 = Memory_new(WRAM_SIZE)
    /\ bus.rom_banks = RomChunks(rom)
    /\ Bus_write(bus, 0, 165) = [res |-> Ok, bus |-> bus]


\* C36: a byte written to 0xFE00 + a reads back from 0xFE00 + a, and the
\* write leaves the value read at every other address of the sprite table
\* unchanged: the 160 bytes are independently addressable.
C36_SpriteBytesIndependent ==
    phase = "loaded" =>
        \A a \in OamProbes :
            LET w == Bus_write(bus, 65024 + a, 165)
            IN  /\ w.res = Ok
                /\ Bus_read(w.bus, 65024 + a) = [res |-> Ok, val |-> 165]
                /\ \A b \in OamProbes \ {a} :
                       Bus_read(w.bus, 65024 + b) = Bus_read(bus, 65024 + b)

\* 0xA5 was written to 0xFE02, the third byte of sprite 0, and 0xFE00, its
\* first byte, reads 0xA5
C36_ThirdByteAliasesFirst ==
    /\ phase = "loaded"
    /\ bus.ppu.oam = [x \in {0} |-> 165]
    /\ ret = Ok
    /\ Bus_read(bus, 65026) = [res |-> Ok, val |-> 165]
    /\ Bus_read(bus, 65024) = [res |-> Ok, val |-> 165]


(***************************************************************************)
(* Immediate loads (SpecLoad).                                             *)
(***************************************************************************)
\* the register an LD r,d8 opcode names, in the numbering of Reg8
LdTarget(opcode) == (opcode - 6) \div 8

\* C37: LD r,d8 (0x06, 0x0E, 0x16, 0x1E, 0x26, 0x2E, 0x3E) stores the byte
\* fetched after the opcode into B, C, D, E, H, L, A respectively and leaves
\* every other register and the flags unchanged.
C37_LoadImmediate ==
    [][phase' = "done" =>
          LET r == LdTarget(hist'.ld.opcode)
          IN  /\ ret' = Ok
              /\ Reg8(cpu', r) = hist'.ld.d8
              /\ \A o \in (0..5) \cup {7} : o # r => Reg8(cpu', o) = Reg8(cpu, o)
              /\ Lo(cpu'.af) = Lo(cpu.af)
              /\ cpu'.sp = cpu.sp]_vars

\* 0x26 (LD H,d8) was executed with the operand 0xA5: D holds 0xA5 and H
\* still holds 0xC1
C37_LoadHighGoesToD ==
    /\ phase = "done"
    /\ hist.ld = [opcode |-> 38, d8 |-> 165]
    /\ Reg8(cpu, 2) = 165
    /\ Reg8(cpu, 4) = 193


(***************************************************************************)
(* Failed cartridge loads (SpecBus).                                       *)
(***************************************************************************)
\* a two-bank image of type 0 whose bytes differ from those of BusImages
NextImage == [len |-> 32768, type |-> 0, seed |-> 9, code |-> << >>]

C39_ProducerConsumer ==
    LET q == bus.apu.sample_channel
        a == APU_tick(bus.apu)
    IN  /\ Len(q) \in 0..SAMPLE_CAPACITY
        /\ a.sample_channel = IF Mixer_due(bus.apu) /\ Len(q) < SAMPLE_CAPACITY
                               THEN Append(q, Offered(a))
                               ELSE q
        /\ hist.q.received \o q = hist.q.accepted
        /\ Len(hist.q.accepted) <= hist.pushes

\* 1026 samples were offered, one of them to a full queue, and the consumer
\* has popped five times: it holds the five oldest samples, the fifth being
\* the first of the high half of the wave, and 1020 samples are queued
C39_PoppedFromFullQueue ==
    /\ hist.q.pops = 5
    /\ hist.q.received = << -120, -120, -120, -120, 120 >>
    /\ hist.pushes = SAMPLE_CAPACITY + 2
    /\ Len(hist.q.accepted) = SAMPLE_CAPACITY + 1
    /\ Len(bus.apu.sample_channel) = SAMPLE_CAPACITY - 4


(***************************************************************************)
(* Decoding (SpecDecode).                                                  *)
(***************************************************************************)
\* C40: every primary opcode outside the invalid set, and every secondary
\* opcode reached through the prefix 0xCB, executes to completion and leaves
\* the CPU able to continue; an opcode of the invalid set, and no other,
\* aborts the run.
C40_OpcodesComplete ==
    [][phase = "new" =>
          IF hist'.ld.opcode \in InvalidOpcodes
          THEN phase' = "panicked"
          ELSE phase' = "done" /\ ret' = Ok]_vars

\* the prefix 0xCB followed by 0x37 (SWAP A) was executed: the run is
\* aborted with `not implemented`
C40_SwapAborts ==
    /\ phase = "panicked"
    /\ hist.ld = [opcode |-> 203, d8 |-> 55]
    /\ ret = Panic("not implemented")
    /\ cpu.pc = 49153

====
